---- MODULE Spec2Model ----
(***************************************************************************)
(* Gosling: identity and endpoint handshakes over onion services.          *)
(*                                                                         *)
(* The module models, from src/source/gosling/src/gosling.rs,              *)
(*   - build_client_proof, the byte string both peers sign and verify;     *)
(*   - the IdentityClient / IdentityServer state machines;                 *)
(*   - the EndpointClient / EndpointServer state machines;                 *)
(*   - the Context that owns the machines and ticks them in update().      *)
(* The honk_rpc Session and the tor_crypto key types are not part of the   *)
(* surveyed sources; they are modelled from their documented interface.    *)
(*                                                                         *)
(* Strings and binaries are sequences of byte values.  Option<T> is a      *)
(* sequence of length 0 (None) or 1 (Some).                                *)
(***************************************************************************)
EXTENDS Integers, Sequences, FiniteSets, TLC

VARIABLES
    proof_in,       \* SpecProof: the arguments handed to build_client_proof
    proof_out,      \* SpecProof: Option<Result<ClientProof>> it returned
    id_client,      \* SpecIdentity: the IdentityClient under test
    id_server,      \* SpecIdentity: the IdentityServer under test
    id_net,         \* SpecIdentity: the two byte streams between them
    id_hist,        \* SpecIdentity: what both sides emitted and sent so far
    ep_client,      \* SpecEndpoint: the EndpointClient under test
    ep_server,      \* SpecEndpoint: the EndpointServer under test
    ep_net,         \* SpecEndpoint: the two byte streams between them
    ep_hist,        \* SpecEndpoint: what both sides emitted and sent so far
    ctx,            \* Spec: the Context
    ctx_hist        \* Spec: the events update() returned and what it retired

proof_vars == <<proof_in, proof_out>>
id_vars    == <<id_client, id_server, id_net, id_hist>>
ep_vars    == <<ep_client, ep_server, ep_net, ep_hist>>
ctx_vars   == <<ctx, ctx_hist>>
vars       == <<proof_in, proof_out, id_client, id_server, id_net, id_hist,
                ep_client, ep_server, ep_net, ep_hist, ctx, ctx_hist>>

(***************************************************************************)
(* Bounds of the model.                                                    *)
(***************************************************************************)
\* longest request name handed to build_client_proof in SpecProof
MaxRequestLen == 2
\* number of ed25519 private keys that generate() can return
NumKeys == 3

(***************************************************************************)
(* Option and Result.                                                      *)
(***************************************************************************)
None == <<>>
Some(x) == <<x>>
IsSome(o) == Len(o) = 1
IsNone(o) == Len(o) = 0
Unwrap(o) == o[1]

Ok(x) == [ok |-> TRUE, v |-> x]
Err(e) == [ok |-> FALSE, e |-> e]
\* bail!("rpc error_code: {}", error_code)
ErrRpc(error_code) == [ok |-> FALSE, e |-> "rpc error_code", error_code |-> error_code]

Repeat(b, n) == [i \in 1..n |-> b]

RECURSIVE SeqsUpTo(_, _)
\* every sequence over alphabet A of length at most n
SeqsUpTo(A, n) ==
    IF n = 0 THEN {<<>>}
    ELSE LET shorter == SeqsUpTo(A, n - 1)
         IN shorter \cup {Append(s, a) : s \in shorter, a \in A}

(***************************************************************************)
(* Program constants.                                                      *)
(***************************************************************************)
\* GoslingError is #[repr(i32)] with no explicit discriminants
BadVersion == 0
RequestCookieRequired == 1
InvalidArg == 2
Failure == 3

\* "0.0.0.1"
GOSLING_VERSION == <<48, 46, 48, 46, 48, 46, 49>>

CLIENT_COOKIE_SIZE == 32
SERVER_COOKIE_SIZE == 32
ED25519_SIGNATURE_SIZE == 64
X25519_PUBLIC_KEY_SIZE == 32
V3_ONION_SERVICE_ID_LENGTH == 56

\* DomainSeparator as &[u8]
GoslingIdentity == <<103,111,115,108,105,110,103,45,105,100,101,110,116,105,116,121>>
GoslingEndpoint == <<103,111,115,108,105,110,103,45,101,110,100,112,111,105,110,116>>

(***************************************************************************)
(* tor_crypto: keys, service ids, signatures.                              *)
(* An ed25519 private key is a number 1..NumKeys; 0 is no key at all.      *)
(***************************************************************************)
Ed25519PrivateKeys == 1..NumKeys

\* Ed25519PublicKey::from_private_key
Ed25519PublicFromPrivate(k) == k + 10

\* V3OnionServiceId::from_public_key: the 56 character text, made of a
\* character for the key, a checksum character and the version character
V3OnionServiceIdFromPublicKey(pub) ==
    [i \in 1..V3_ONION_SERVICE_ID_LENGTH |->
        IF i = 1 THEN 97 + (pub - 10)
        ELSE IF i = 2 THEN 122 - (pub - 10)
        ELSE IF i = V3_ONION_SERVICE_ID_LENGTH THEN 100
        ELSE 97]

\* V3OnionServiceId::from_private_key
V3OnionServiceIdFromPrivateKey(k) ==
    V3OnionServiceIdFromPublicKey(Ed25519PublicFromPrivate(k))

\* V3OnionServiceId::is_valid, used by from_string
V3OnionServiceIdIsValid(s) ==
    /\ Len(s) = V3_ONION_SERVICE_ID_LENGTH
    /\ s[1] \in 98..122
    /\ s[2] = 122 - (s[1] - 97)
    /\ s[V3_ONION_SERVICE_ID_LENGTH] = 100
    /\ \A i \in 3..(V3_ONION_SERVICE_ID_LENGTH - 1) : s[i] = 97

\* V3OnionServiceId::from_string
V3OnionServiceIdFromString(s) ==
    IF V3OnionServiceIdIsValid(s) THEN Ok(s) ELSE Err("invalid service id")

\* V3OnionServiceId::to_string: the struct holds the text itself
V3OnionServiceIdToString(sid) == sid

\* Ed25519PublicKey::from_service_id
Ed25519PublicFromServiceId(sid) ==
    IF V3OnionServiceIdIsValid(sid) THEN Ok((sid[1] - 97) + 10)
    ELSE Err("invalid service id")

\* Ed25519PrivateKey::sign_message: a signature names its signer and message
Ed25519Sign(k, msg) == [signer |-> Ed25519PublicFromPrivate(k), msg |-> msg]

\* Ed25519Signature::verify
Ed25519Verify(sig, msg, pub) == sig.signer = pub /\ sig.msg = msg

\* An x25519 private key is a number too; its public key and the sign bit
\* of the ed25519 key it converts to
X25519PublicFromPrivate(x) == x + 20
X25519SignBit(x) == x % 2

\* X25519PrivateKey::sign_message: (signature, signbit)
X25519Sign(x, msg) ==
    [sig |-> [signer |-> X25519PublicFromPrivate(x), msg |-> msg],
     signbit |-> X25519SignBit(x)]

\* Ed25519Signature::verify_x25519: converts the x25519 public key with the
\* sign bit to an ed25519 public key and verifies under it
Ed25519VerifyX25519(sig, msg, xpub, signbit) ==
    /\ sig.signer = xpub
    /\ sig.msg = msg
    /\ signbit = (xpub - 20) % 2

(***************************************************************************)
(* build_client_proof.                                                     *)
(***************************************************************************)
\* str::is_ascii
IsAscii(s) == \A i \in 1..Len(s) : s[i] < 128

HexDigit(n) == IF n < 10 THEN 48 + n ELSE 87 + n

\* data_encoding::HEXLOWER.encode: two digits a byte, the high one first
HexLowerEncode(bytes) ==
    [i \in 1..(2 * Len(bytes)) |->
        IF i % 2 = 1 THEN HexDigit(bytes[(i + 1) \div 2] \div 16)
        ELSE HexDigit(bytes[i \div 2] % 16)]

\* a build_client_proof that encodes the client cookie in both cookie places
BuildClientProofSameCookie(domain_separator, request, client_service_id, server_service_id, client_cookie, server_cookie) ==
    IF ~IsAscii(request) THEN Err("request is not ascii")
    ELSE Ok(domain_separator \o <<0>>
            \o request \o <<0>>
            \o V3OnionServiceIdToString(client_service_id) \o <<0>>
            \o V3OnionServiceIdToString(server_service_id) \o <<0>>
            \o HexLowerEncode(client_cookie) \o <<0>>
            \o HexLowerEncode(client_cookie))

build_client_proof(domain_separator, request, client_service_id, server_service_id, client_cookie, server_cookie) ==
    IF ~IsAscii(request) THEN Err("request is not ascii")
    ELSE Ok(domain_separator \o <<0>>
            \o request \o <<0>>
            \o V3OnionServiceIdToString(client_service_id) \o <<0>>
            \o V3OnionServiceIdToString(server_service_id) \o <<0>>
            \o HexLowerEncode(client_cookie) \o <<0>>
            \o HexLowerEncode(server_cookie))

(***************************************************************************)
(* bson values and honk_rpc messages.                                      *)
(* A value is [t, v, n]: its bson type, its content as a byte sequence and *)
(* its length on the wire.  A binary that carries a signature or a key has *)
(* the signer (and the signed message) as content and the byte length of   *)
(* the encoding as n.                                                      *)
(***************************************************************************)
BsonString(s) == [t |-> "String", v |-> s, n |-> Len(s)]
BsonBinary(bytes) == [t |-> "Binary", v |-> bytes, n |-> Len(bytes)]
BsonBoolean(b) == [t |-> "Boolean", v |-> IF b THEN <<1>> ELSE <<0>>, n |-> 1]
\* an application document; <<>> is doc!{}
BsonDocument(d) == [t |-> "Document", v |-> d, n |-> Len(d)]
BsonMissing == [t |-> "Missing", v |-> <<>>, n |-> 0]
BsonSignature(sig) == [t |-> "Binary", v |-> <<sig.signer>> \o sig.msg, n |-> ED25519_SIGNATURE_SIZE]
BsonX25519PublicKey(xpub) == [t |-> "Binary", v |-> <<xpub>>, n |-> X25519_PUBLIC_KEY_SIZE]

\* Ed25519Signature::from_raw
Ed25519SignatureFromRaw(v) == [signer |-> Head(v), msg |-> Tail(v)]

\* the document a handshake function returns: its two possible keys
ResultDocument(server_cookie, endpoint_challenge) == [t |-> "Document", server_cookie |-> server_cookie, endpoint_challenge |-> endpoint_challenge]
EmptyDocument == <<>>
NoResult == [t |-> "Null"]

\* honk_rpc request and response sections
Request(function, version, cookie, args) == [function |-> function, version |-> version, cookie |-> cookie, args |-> args]
ResponsePending(cookie) == [kind |-> "Pending", cookie |-> cookie, result |-> NoResult, error_code |-> 0]
ResponseSuccess(cookie, result) == [kind |-> "Success", cookie |-> cookie, result |-> result, error_code |-> 0]
ResponseError(cookie, error_code) == [kind |-> "Error", cookie |-> cookie, result |-> NoResult, error_code |-> error_code]

\* what update() of a state machine returns, with what it did to the session:
\* the requests it issued, the responses it sent, whether it took a response
Step(self, ret, calls, replies, polled) == [self |-> self, ret |-> ret, calls |-> calls, replies |-> replies, polled |-> polled]

OkNone == Ok(None)
OkEvent(e) == Ok(Some(e))

(***************************************************************************)
(* Identity client.                                                        *)
(***************************************************************************)
\* IdentityClient::new; rpc_next_cookie is the next RequestCookie of its Session
IdentityClientNew(server_service_id, requested_endpoint, client_ed25519_private, client_x25519_private) ==
    [server_service_id |-> server_service_id,
     requested_endpoint |-> requested_endpoint,
     client_service_id |-> V3OnionServiceIdFromPrivateKey(client_ed25519_private),
     client_ed25519_private |-> client_ed25519_private,
     client_x25519_private |-> client_x25519_private,
     state |-> "BeginHandshake",
     begin_handshake_request_cookie |-> None,
     server_cookie |-> None,
     send_response_request_cookie |-> None,
     endpoint_challenge_response |-> None,
     rpc_next_cookie |-> 0]

\* Session::client_call: the request leaves with the next cookie
ClientCall(self, function, args) == Request(function, 0, Some(self.rpc_next_cookie), args)

\* a BeginHandshake arm that sends the call and stays in BeginHandshake
IdentityClientBeginNoAdvance(self) ==
    Step([self EXCEPT !.rpc_next_cookie = @ + 1], OkNone,
         <<ClientCall(self, "begin_handshake",
                [version |-> BsonString(GOSLING_VERSION),
                 client_identity |-> BsonString(V3OnionServiceIdToString(self.client_service_id)),
                 endpoint |-> BsonString(self.requested_endpoint)])>>,
         <<>>, FALSE)

\* IdentityClient::update, arm BeginHandshake
IdentityClientBegin(self) ==
    LET call == ClientCall(self, "begin_handshake",
                    [version |-> BsonString(GOSLING_VERSION),
                     client_identity |-> BsonString(V3OnionServiceIdToString(self.client_service_id)),
                     endpoint |-> BsonString(self.requested_endpoint)])
    IN Step([self EXCEPT !.begin_handshake_request_cookie = Some(self.rpc_next_cookie),
                         !.rpc_next_cookie = @ + 1,
                         !.state = "WaitingForChallenge"],
            OkNone, <<call>>, <<>>, FALSE)

\* IdentityClient::update, arm WaitingForChallenge; response is what
\* client_next_response() returns
IdentityClientAwaitChallenge(self, response) ==
    LET cookie == Unwrap(self.begin_handshake_request_cookie)
        fail(reason) == Step(self, Err(reason), <<>>, <<>>, TRUE)
    IN  IF IsNone(response) THEN Step(self, OkNone, <<>>, <<>>, TRUE)
        ELSE LET r == Unwrap(response) IN
        IF r.kind = "Pending" THEN
            IF r.cookie = cookie THEN Step(self, OkNone, <<>>, <<>>, TRUE)
            ELSE fail("received unexpected pending response")
        ELSE IF r.kind = "Error" THEN
            IF r.cookie = cookie THEN Step(self, ErrRpc(r.error_code), <<>>, <<>>, TRUE)
            ELSE fail("received unexpected error response")
        ELSE IF r.cookie /= cookie THEN fail("received unexpected success response")
        ELSE IF r.result.t /= "Document" THEN fail("received unexpected bson type")
        ELSE IF r.result.server_cookie.t = "Missing" THEN fail("missing server_cookie")
        ELSE IF r.result.server_cookie.t /= "Binary" THEN fail("server_cookie is unxpected bson type")
        ELSE IF r.result.server_cookie.n /= SERVER_COOKIE_SIZE THEN fail("")
        ELSE LET saved == [self EXCEPT !.server_cookie = Some(r.result.server_cookie.v)] IN
        IF r.result.endpoint_challenge.t = "Missing" THEN Step(saved, Err("missing endpoint_challenge"), <<>>, <<>>, TRUE)
        ELSE IF r.result.endpoint_challenge.t /= "Document" THEN Step(saved, Err("endpoint challenge is unexpected bson type"), <<>>, <<>>, TRUE)
        ELSE Step([saved EXCEPT !.state = "WaitingForChallengeResponse"],
                  OkEvent([type |-> "ChallengeReceived",
                           identity_service_id |-> self.server_service_id,
                           endpoint_name |-> self.requested_endpoint,
                           endpoint_challenge |-> r.result.endpoint_challenge.v]),
                  <<>>, <<>>, TRUE)

\* IdentityClient::update, arm WaitingForChallengeResponse with a response
\* to send; client_cookie is what OsRng fills in
IdentityClientRespond(self, endpoint_challenge_response, client_cookie) ==
    LET client_identity_proof ==
            build_client_proof(GoslingIdentity, self.requested_endpoint, self.client_service_id,
                               self.server_service_id, client_cookie, Unwrap(self.server_cookie))
    IN  IF ~client_identity_proof.ok THEN Step(self, Err(client_identity_proof.e), <<>>, <<>>, FALSE)
        ELSE
        LET client_identity_proof_signature == Ed25519Sign(self.client_ed25519_private, client_identity_proof.v)
            client_authorization_key == X25519PublicFromPrivate(self.client_x25519_private)
            client_identity == V3OnionServiceIdToString(self.client_service_id)
            signed == X25519Sign(self.client_x25519_private, client_identity)
            client_authorization_key_signbit == (signed.signbit = 1)
            args == [client_cookie |-> BsonBinary(client_cookie),
                     client_identity_proof_signature |-> BsonSignature(client_identity_proof_signature),
                     client_authorization_key |-> BsonX25519PublicKey(client_authorization_key),
                     client_authorization_key_signbit |-> BsonBoolean(client_authorization_key_signbit),
                     client_authorization_signature |-> BsonSignature(signed.sig),
                     challenge_response |-> BsonDocument(endpoint_challenge_response)]
        IN  Step([self EXCEPT !.send_response_request_cookie = Some(self.rpc_next_cookie),
                              !.rpc_next_cookie = @ + 1,
                              !.state = "WaitingForChallengeVerification"],
                 OkNone, <<ClientCall(self, "send_response", args)>>, <<>>, FALSE)

\* IdentityClient::update, arm WaitingForChallengeVerification
IdentityClientAwaitVerification(self, response) ==
    LET cookie == Unwrap(self.send_response_request_cookie)
        fail(reason) == Step(self, Err(reason), <<>>, <<>>, TRUE)
    IN  IF IsNone(response) THEN Step(self, OkNone, <<>>, <<>>, TRUE)
        ELSE LET r == Unwrap(response) IN
        IF r.kind = "Pending" THEN
            IF r.cookie = cookie THEN Step(self, OkNone, <<>>, <<>>, TRUE)
            ELSE fail("received unexpected pending response")
        ELSE IF r.kind = "Error" THEN
            IF r.cookie = cookie THEN Step(self, ErrRpc(r.error_code), <<>>, <<>>, TRUE)
            ELSE fail("received unexpected error response")
        ELSE IF r.cookie /= cookie THEN fail("received unexpected success response")
        ELSE IF r.result.t /= "String" THEN fail("received unexpected bson type")
        ELSE LET endpoint_service_id == V3OnionServiceIdFromString(r.result.v) IN
        IF ~endpoint_service_id.ok THEN fail(endpoint_service_id.e)
        ELSE Step([self EXCEPT !.state = "HandshakeComplete"],
                  OkEvent([type |-> "HandshakeCompleted",
                           identity_service_id |-> self.server_service_id,
                           endpoint_service_id |-> endpoint_service_id.v,
                           endpoint_name |-> self.requested_endpoint,
                           client_auth_private_key |-> self.client_x25519_private]),
                  <<>>, <<>>, TRUE)

\* IdentityClient::update.  rpc_ok: what Session::update returned; response:
\* what client_next_response() returns if called; client_cookie: OsRng
IdentityClientUpdate(self, rpc_ok, response, client_cookie) ==
    IF self.state = "HandshakeComplete" THEN Step(self, Err("handshake complete"), <<>>, <<>>, FALSE)
    ELSE IF ~rpc_ok THEN Step(self, Err("rpc"), <<>>, <<>>, FALSE)
    ELSE
    \* the match takes endpoint_challenge_response out of self
    LET taken == self.endpoint_challenge_response
        me == [self EXCEPT !.endpoint_challenge_response = None]
        bhrc == IsSome(me.begin_handshake_request_cookie)
        sc == IsSome(me.server_cookie)
        srrc == IsSome(me.send_response_request_cookie)
    IN  IF me.state = "BeginHandshake" /\ ~bhrc /\ ~sc /\ IsNone(taken) /\ ~srrc
            THEN IdentityClientBegin(me)
        ELSE IF me.state = "WaitingForChallenge" /\ bhrc /\ ~sc /\ IsNone(taken) /\ ~srrc
            THEN IdentityClientAwaitChallenge(me, response)
        ELSE IF me.state = "WaitingForChallengeResponse" /\ bhrc /\ sc /\ IsNone(taken) /\ ~srrc
            THEN Step(me, OkNone, <<>>, <<>>, FALSE)
        ELSE IF me.state = "WaitingForChallengeResponse" /\ bhrc /\ sc /\ IsSome(taken) /\ ~srrc
            THEN IdentityClientRespond(me, Unwrap(taken), client_cookie)
        ELSE IF me.state = "WaitingForChallengeVerification" /\ bhrc /\ sc /\ IsNone(taken) /\ srrc
            THEN IdentityClientAwaitVerification(me, response)
        ELSE Step(me, Err("unexpected state"), <<>>, <<>>, FALSE)

\* a send_response that makes the RPC call itself
IdentityClientSendResponseCallsAtOnce(self, challenge_response) ==
    IF self.state /= "WaitingForChallengeResponse" THEN [self |-> self, ret |-> Err("state")]
    ELSE [self |-> [self EXCEPT !.endpoint_challenge_response = Some(challenge_response),
                                !.send_response_request_cookie = Some(self.rpc_next_cookie),
                                !.rpc_next_cookie = @ + 1],
          ret |-> Ok(None)]

\* a send_response that accepts the response and forgets it
IdentityClientSendResponseDropped(self, challenge_response) ==
    IF self.state /= "WaitingForChallengeResponse" THEN [self |-> self, ret |-> Err("state")]
    ELSE [self |-> self, ret |-> Ok(None)]

\* IdentityClient::send_response
IdentityClientSendResponse(self, challenge_response) ==
    IF self.state /= "WaitingForChallengeResponse" THEN [self |-> self, ret |-> Err("state")]
    ELSE [self |-> [self EXCEPT !.endpoint_challenge_response = Some(challenge_response)], ret |-> Ok(None)]

(***************************************************************************)
(* Identity server.                                                        *)
(***************************************************************************)
\* IdentityServer::new
IdentityServerNew(server_identity) ==
    [rpc |-> TRUE,
     server_identity |-> server_identity,
     state |-> "WaitingForBeginHandshake",
     begin_handshake_request_cookie |-> None,
     client_identity |-> None,
     requested_endpoint |-> None,
     server_cookie |-> None,
     endpoint_challenge |-> None,
     send_response_request_cookie |-> None,
     client_auth_key |-> None,
     challenge_response |-> None,
     endpoint_private_key |-> None,
     client_allowed |-> FALSE,
     client_requested_endpoint_valid |-> FALSE,
     client_proof_signature_valid |-> FALSE,
     client_auth_signature_valid |-> FALSE,
     challenge_response_valid |-> FALSE]

\* bson::Document::remove
ArgRemove(args, key) == IF key \in DOMAIN args THEN args[key] ELSE BsonMissing

\* what exec_function returns, with the server it leaves behind
Exec(self, res) == [self |-> self, res |-> res]
ExecErr(code) == [ok |-> FALSE, code |-> code]

\* a handle_begin_handshake that answers the request at once
IdentityServerHandleBeginHandshakeAtOnce(self, version, endpoint_name) ==
    Exec([self EXCEPT !.requested_endpoint = Some(endpoint_name)],
         Ok(Some(ResultDocument(BsonBinary(Repeat(0, SERVER_COOKIE_SIZE)), BsonDocument(EmptyDocument)))))

\* IdentityServer::handle_begin_handshake
IdentityServerHandleBeginHandshake(self, version, endpoint_name) ==
    IF version /= GOSLING_VERSION THEN Exec(self, ExecErr(BadVersion))
    ELSE Exec([self EXCEPT !.requested_endpoint = Some(endpoint_name)], Ok(None))

\* a send_challenge that records the challenge whatever the state
IdentityServerSendChallengeAnyState(self, client_allowed, endpoint_valid, endpoint_challenge, server_cookie) ==
    [self |-> [self EXCEPT !.server_cookie = Some(server_cookie),
                           !.endpoint_challenge = Some(endpoint_challenge),
                           !.client_allowed = client_allowed,
                           !.client_requested_endpoint_valid = endpoint_valid,
                           !.state = "ChallengeReady"],
     ret |-> Ok(None)]

\* IdentityServer::send_challenge; server_cookie is what OsRng fills in
IdentityServerSendChallenge(self, client_allowed, endpoint_valid, endpoint_challenge, server_cookie) ==
    IF /\ self.state = "GettingChallenge"
       /\ IsSome(self.begin_handshake_request_cookie)
       /\ IsSome(self.client_identity)
       /\ IsSome(self.requested_endpoint)
       /\ IsNone(self.server_cookie)
       /\ IsNone(self.endpoint_challenge)
       /\ IsNone(self.client_auth_key)
       /\ IsNone(self.challenge_response)
       /\ IsNone(self.endpoint_private_key)
    THEN [self |-> [self EXCEPT !.server_cookie = Some(server_cookie),
                                !.endpoint_challenge = Some(endpoint_challenge),
                                !.client_allowed = client_allowed,
                                !.client_requested_endpoint_valid = endpoint_valid,
                                !.state = "ChallengeReady"],
          ret |-> Ok(None)]
    ELSE [self |-> self, ret |-> Err("unexpected state")]

\* a proof check that looks only at who signed
IdentityServerProofValidAnyProof(self, client_cookie, client_identity, client_identity_proof_signature) ==
    LET client_identity_key == Ed25519PublicFromServiceId(client_identity)
    IN  IF client_identity_key.ok
        THEN client_identity_proof_signature.signer = client_identity_key.v
        ELSE self.client_proof_signature_valid

\* the proof check of IdentityServer::handle_send_response: the flag is
\* assigned only when the key and the proof could be built
IdentityServerProofValid(self, client_cookie, client_identity, client_identity_proof_signature) ==
    LET client_identity_key == Ed25519PublicFromServiceId(client_identity)
        client_proof == build_client_proof(GoslingIdentity, Unwrap(self.requested_endpoint), client_identity,
                                           self.server_identity, client_cookie, Unwrap(self.server_cookie))
    IN  IF client_identity_key.ok /\ client_proof.ok
        THEN Ed25519Verify(client_identity_proof_signature, client_proof.v, client_identity_key.v)
        ELSE self.client_proof_signature_valid

\* a handle_send_response that answers the request at once
IdentityServerHandleSendResponseAtOnce(self, client_cookie, client_identity, client_identity_proof_signature, client_authorization_key, client_authorization_key_signbit, client_authorization_signature, challenge_response) ==
    Exec([self EXCEPT !.client_auth_key = Some(client_authorization_key),
                      !.challenge_response = Some(challenge_response)],
         Ok(Some(BsonString(V3OnionServiceIdToString(self.server_identity)))))

\* IdentityServer::handle_send_response
IdentityServerHandleSendResponse(self, client_cookie, client_identity, client_identity_proof_signature, client_authorization_key, client_authorization_key_signbit, client_authorization_signature, challenge_response) ==
    Exec([self EXCEPT
            !.client_proof_signature_valid =
                IdentityServerProofValid(self, client_cookie, client_identity, client_identity_proof_signature),
            !.client_auth_signature_valid =
                Ed25519VerifyX25519(client_authorization_signature, V3OnionServiceIdToString(client_identity),
                                    client_authorization_key, client_authorization_key_signbit),
            !.client_auth_key = Some(client_authorization_key),
            !.challenge_response = Some(challenge_response)],
         Ok(None))

\* a send_challenge_verification that records the opposite of the verdict
IdentityServerSendChallengeVerificationNegated(self, challenge_response_valid) ==
    IF self.state = "GettingChallengeVerification"
    THEN [self |-> [self EXCEPT !.challenge_response_valid = ~challenge_response_valid,
                                !.state = "ChallengeVerificationReady"],
          ret |-> Ok(None)]
    ELSE [self |-> self, ret |-> Err("unexpected state")]

\* IdentityServer::send_challenge_verification
IdentityServerSendChallengeVerification(self, challenge_response_valid) ==
    IF /\ self.state = "GettingChallengeVerification"
       /\ IsSome(self.begin_handshake_request_cookie)
       /\ IsSome(self.client_identity)
       /\ IsSome(self.requested_endpoint)
       /\ IsSome(self.server_cookie)
       /\ IsSome(self.endpoint_challenge)
       /\ IsSome(self.client_auth_key)
       /\ IsSome(self.challenge_response)
       /\ IsNone(self.endpoint_private_key)
    THEN [self |-> [self EXCEPT !.challenge_response_valid = challenge_response_valid,
                                !.state = "ChallengeVerificationReady"],
          ret |-> Ok(None)]
    ELSE [self |-> self, ret |-> Err("unexpected state")]

\* IdentityServer::exec_function, the begin_handshake arm
IdentityServerExecBeginHandshake(self, args, request_cookie) ==
    LET version == ArgRemove(args, "version")
        client_identity == ArgRemove(args, "client_identity")
        endpoint_name == ArgRemove(args, "endpoint")
    IN  IF ~(version.t = "String" /\ client_identity.t = "String" /\ endpoint_name.t = "String")
        THEN Exec(self, ExecErr(InvalidArg))
        ELSE
        LET stored == [self EXCEPT !.begin_handshake_request_cookie = Some(request_cookie)]
            parsed == V3OnionServiceIdFromString(client_identity.v)
        IN  IF ~parsed.ok THEN Exec(stored, ExecErr(InvalidArg))
            ELSE IdentityServerHandleBeginHandshake([stored EXCEPT !.client_identity = Some(parsed.v)],
                                                    version.v, endpoint_name.v)

\* a send_response arm that hands the arguments on without looking at
\* their lengths
IdentityServerExecSendResponseAnyLength(self, args, request_cookie) ==
    IF ~(/\ ArgRemove(args, "client_cookie").t = "Binary"
         /\ ArgRemove(args, "client_identity_proof_signature").t = "Binary"
         /\ ArgRemove(args, "client_authorization_key").t = "Binary"
         /\ ArgRemove(args, "client_authorization_key_signbit").t = "Boolean"
         /\ ArgRemove(args, "client_authorization_signature").t = "Binary"
         /\ ArgRemove(args, "challenge_response").t = "Document")
    THEN Exec(self, ExecErr(InvalidArg))
    ELSE IdentityServerHandleSendResponse(
            [self EXCEPT !.send_response_request_cookie = Some(request_cookie)],
            args.client_cookie.v,
            Unwrap(self.client_identity),
            Ed25519SignatureFromRaw(args.client_identity_proof_signature.v),
            Head(args.client_authorization_key.v),
            Head(args.client_authorization_key_signbit.v),
            Ed25519SignatureFromRaw(args.client_authorization_signature.v),
            args.challenge_response.v)

\* IdentityServer::exec_function, the send_response arm
IdentityServerExecSendResponse(self, args, request_cookie) ==
    LET client_cookie == ArgRemove(args, "client_cookie")
        client_identity_proof_signature == ArgRemove(args, "client_identity_proof_signature")
        client_authorization_key == ArgRemove(args, "client_authorization_key")
        client_authorization_key_signbit == ArgRemove(args, "client_authorization_key_signbit")
        client_authorization_signature == ArgRemove(args, "client_authorization_signature")
        challenge_response == ArgRemove(args, "challenge_response")
    IN  IF ~(/\ client_cookie.t = "Binary"
             /\ client_identity_proof_signature.t = "Binary"
             /\ client_authorization_key.t = "Binary"
             /\ client_authorization_key_signbit.t = "Boolean"
             /\ client_authorization_signature.t = "Binary"
             /\ challenge_response.t = "Document")
        THEN Exec(self, ExecErr(InvalidArg))
        ELSE
        LET stored == [self EXCEPT !.send_response_request_cookie = Some(request_cookie)]
        IN  IF client_cookie.n /= CLIENT_COOKIE_SIZE THEN Exec(stored, ExecErr(InvalidArg))
            ELSE IF client_identity_proof_signature.n /= ED25519_SIGNATURE_SIZE THEN Exec(stored, ExecErr(InvalidArg))
            ELSE IF client_authorization_key.n /= X25519_PUBLIC_KEY_SIZE THEN Exec(stored, ExecErr(InvalidArg))
            ELSE IF client_authorization_signature.n /= ED25519_SIGNATURE_SIZE THEN Exec(stored, ExecErr(InvalidArg))
            ELSE IdentityServerHandleSendResponse(stored,
                    client_cookie.v,
                    Unwrap(self.client_identity),
                    Ed25519SignatureFromRaw(client_identity_proof_signature.v),
                    Head(client_authorization_key.v),
                    Head(client_authorization_key_signbit.v),
                    Ed25519SignatureFromRaw(client_authorization_signature.v),
                    challenge_response.v)

\* an exec_function that runs begin_handshake in whatever state it arrives
IdentityServerExecFunctionBeginAnyState(self, name, version, args, request_cookie) ==
    IF IsNone(request_cookie) THEN Exec(self, ExecErr(RequestCookieRequired))
    ELSE IF name = "begin_handshake" /\ version = 0
        THEN IdentityServerExecBeginHandshake(self, args, Unwrap(request_cookie))
    ELSE IF /\ name = "send_response" /\ version = 0
            /\ self.state = "WaitingForSendResponse"
            /\ IsSome(self.begin_handshake_request_cookie)
            /\ IsSome(self.client_identity)
            /\ IsSome(self.requested_endpoint)
            /\ IsSome(self.server_cookie)
            /\ IsSome(self.endpoint_challenge)
            /\ IsNone(self.client_auth_key)
            /\ IsNone(self.challenge_response)
            /\ IsNone(self.endpoint_private_key)
        THEN IdentityServerExecSendResponse(self, args, Unwrap(request_cookie))
    ELSE Exec(self, ExecErr(Failure))

\* IdentityServer::exec_function
IdentityServerExecFunction(self, name, version, args, request_cookie) ==
    IF IsNone(request_cookie) THEN Exec(self, ExecErr(RequestCookieRequired))
    ELSE IF /\ name = "begin_handshake" /\ version = 0
            /\ self.state = "WaitingForBeginHandshake"
            /\ IsNone(self.begin_handshake_request_cookie)
            /\ IsNone(self.client_identity)
            /\ IsNone(self.requested_endpoint)
            /\ IsNone(self.server_cookie)
            /\ IsNone(self.endpoint_challenge)
            /\ IsNone(self.client_auth_key)
            /\ IsNone(self.challenge_response)
            /\ IsNone(self.endpoint_private_key)
        THEN IdentityServerExecBeginHandshake(self, args, Unwrap(request_cookie))
    ELSE IF /\ name = "send_response" /\ version = 0
            /\ self.state = "WaitingForSendResponse"
            /\ IsSome(self.begin_handshake_request_cookie)
            /\ IsSome(self.client_identity)
            /\ IsSome(self.requested_endpoint)
            /\ IsSome(self.server_cookie)
            /\ IsSome(self.endpoint_challenge)
            /\ IsNone(self.client_auth_key)
            /\ IsNone(self.challenge_response)
            /\ IsNone(self.endpoint_private_key)
        THEN IdentityServerExecSendResponse(self, args, Unwrap(request_cookie))
    ELSE Exec(self, ExecErr(Failure))

\* what next_result returns, with the server it leaves behind
NextResult(self, res, panic) == [self |-> self, res |-> res, panic |-> panic]

\* a success that leaves the application's verdict out
IdentityServerSuccessNoVerdict(self) ==
    /\ self.client_allowed
    /\ self.client_requested_endpoint_valid
    /\ self.client_proof_signature_valid
    /\ self.client_auth_signature_valid

\* whether all five verification flags are set
IdentityServerSuccess(self) ==
    /\ self.client_allowed
    /\ self.client_requested_endpoint_valid
    /\ self.client_proof_signature_valid
    /\ self.client_auth_signature_valid
    /\ self.challenge_response_valid

\* an answer that names the service id of another key than the one kept
IdentityServerEndpointServiceIdOfOtherKey(endpoint_private_key) ==
    V3OnionServiceIdFromPrivateKey((endpoint_private_key % NumKeys) + 1)

\* the service id the server answers send_response with
IdentityServerEndpointServiceId(endpoint_private_key) ==
    V3OnionServiceIdFromPrivateKey(endpoint_private_key)

\* IdentityServer::next_result; endpoint_private_key is what
\* Ed25519PrivateKey::generate() returns
IdentityServerNextResult(self, endpoint_private_key) ==
    IF self.state = "ChallengeReady" THEN
        IF /\ IsSome(self.begin_handshake_request_cookie)
           /\ IsSome(self.client_identity)
           /\ IsSome(self.requested_endpoint)
           /\ IsSome(self.server_cookie)
           /\ IsSome(self.endpoint_challenge)
           /\ IsNone(self.send_response_request_cookie)
           /\ IsNone(self.client_auth_key)
           /\ IsNone(self.challenge_response)
        THEN NextResult([self EXCEPT !.state = "WaitingForSendResponse",
                                     !.endpoint_challenge = Some(EmptyDocument)],
                        Some(ResponseSuccess(Unwrap(self.begin_handshake_request_cookie),
                                ResultDocument(BsonBinary(Unwrap(self.server_cookie)),
                                               BsonDocument(Unwrap(self.endpoint_challenge))))),
                        FALSE)
        ELSE NextResult(self, None, TRUE)
    ELSE IF /\ self.state = "ChallengeVerificationReady"
            /\ IsSome(self.begin_handshake_request_cookie)
            /\ IsSome(self.client_identity)
            /\ IsSome(self.requested_endpoint)
            /\ IsSome(self.server_cookie)
            /\ IsSome(self.endpoint_challenge)
            /\ IsSome(self.send_response_request_cookie)
            /\ IsSome(self.client_auth_key)
            /\ IsSome(self.challenge_response)
    THEN IF IdentityServerSuccess(self)
         THEN NextResult([self EXCEPT !.state = "ChallengeVerificationResponseSent",
                                      !.endpoint_private_key = Some(endpoint_private_key)],
                         Some(ResponseSuccess(Unwrap(self.send_response_request_cookie),
                                BsonString(V3OnionServiceIdToString(
                                    IdentityServerEndpointServiceId(endpoint_private_key))))),
                         FALSE)
         ELSE NextResult([self EXCEPT !.state = "ChallengeVerificationResponseSent"],
                         Some(ResponseError(Unwrap(self.send_response_request_cookie), Failure)),
                         FALSE)
    ELSE NextResult(self, None, FALSE)

\* a reply as the Session sends it: the function it answers, whether it
\* comes from next_result, and the response section
Reply(to, deferred, resp) == [to |-> to, deferred |-> deferred, resp |-> resp]

\* Session::update, the reply to one request given what exec_function returned
SessionReply(request, res) ==
    IF IsNone(request.cookie) THEN <<>>
    ELSE IF ~res.ok THEN <<Reply(request.function, FALSE, ResponseError(Unwrap(request.cookie), res.code))>>
    ELSE IF IsSome(res.v) THEN <<Reply(request.function, FALSE, ResponseSuccess(Unwrap(request.cookie), Unwrap(res.v)))>>
    ELSE <<Reply(request.function, FALSE, ResponsePending(Unwrap(request.cookie)))>>

RECURSIVE IdentityServerRpcRequests(_, _)
\* Session::update: every request read is handed to exec_function
IdentityServerRpcRequests(self, requests) ==
    IF requests = <<>> THEN [self |-> self, replies |-> <<>>]
    ELSE LET request == Head(requests)
             done == IdentityServerExecFunction(self, request.function, request.version, request.args, request.cookie)
             rest == IdentityServerRpcRequests(done.self, Tail(requests))
         IN [self |-> rest.self, replies |-> SessionReply(request, done.res) \o rest.replies]

RECURSIVE IdentityServerRpcResults(_, _)
\* Session::update: next_result is asked until it has nothing more
IdentityServerRpcResults(self, endpoint_private_key) ==
    LET got == IdentityServerNextResult(self, endpoint_private_key)
    IN  IF got.panic THEN [self |-> self, replies |-> <<>>, panic |-> TRUE]
        ELSE IF IsNone(got.res) THEN [self |-> got.self, replies |-> <<>>, panic |-> FALSE]
        ELSE LET rest == IdentityServerRpcResults(got.self, endpoint_private_key)
                 to == IF self.state = "ChallengeReady" THEN "begin_handshake" ELSE "send_response"
             IN [self |-> rest.self,
                 replies |-> <<Reply(to, TRUE, Unwrap(got.res))>> \o rest.replies,
                 panic |-> rest.panic]

\* IdentityServer::update, the match on the state
IdentityServerEvent(self) ==
    LET begun == /\ IsSome(self.begin_handshake_request_cookie)
                 /\ IsSome(self.client_identity)
                 /\ IsSome(self.requested_endpoint)
        challenged == IsSome(self.server_cookie) /\ IsSome(self.endpoint_challenge)
        responded == /\ IsSome(self.send_response_request_cookie)
                     /\ IsSome(self.client_auth_key)
                     /\ IsSome(self.challenge_response)
    IN  IF /\ self.state = "WaitingForBeginHandshake" /\ begun
           /\ IsNone(self.server_cookie) /\ IsNone(self.endpoint_challenge)
           /\ IsNone(self.send_response_request_cookie) /\ IsNone(self.client_auth_key)
           /\ IsNone(self.challenge_response) /\ IsNone(self.endpoint_private_key)
        THEN [self |-> [self EXCEPT !.state = "GettingChallenge"],
              ret |-> OkEvent([type |-> "EndpointRequestReceived",
                               client_service_id |-> Unwrap(self.client_identity),
                               requested_endpoint |-> Unwrap(self.requested_endpoint)])]
        ELSE IF /\ self.state = "WaitingForSendResponse" /\ begun /\ challenged /\ responded
                /\ IsNone(self.endpoint_private_key)
        THEN [self |-> [self EXCEPT !.state = "GettingChallengeVerification",
                                    !.challenge_response = Some(EmptyDocument)],
              ret |-> OkEvent([type |-> "ChallengeResponseReceived",
                               challenge_response |-> Unwrap(self.challenge_response)])]
        ELSE IF /\ self.state = "ChallengeVerificationResponseSent" /\ begun /\ challenged /\ responded
                /\ IsSome(self.endpoint_private_key)
        THEN [self |-> [self EXCEPT !.state = "HandshakeComplete"],
              ret |-> OkEvent([type |-> "HandshakeCompleted",
                               endpoint_private_key |-> Unwrap(self.endpoint_private_key),
                               endpoint_name |-> Unwrap(self.requested_endpoint),
                               client_service_id |-> Unwrap(self.client_identity),
                               client_auth_public_key |-> Unwrap(self.client_auth_key)])]
        ELSE IF /\ self.state = "ChallengeVerificationResponseSent" /\ begun /\ challenged /\ responded
                /\ IsNone(self.endpoint_private_key)
        THEN [self |-> [self EXCEPT !.state = "HandshakeComplete"],
              ret |-> OkEvent([type |-> "HandshakeRejected",
                               client_allowed |-> self.client_allowed,
                               client_requested_endpoint_valid |-> self.client_requested_endpoint_valid,
                               client_proof_signature_valid |-> self.client_proof_signature_valid,
                               client_auth_signature_valid |-> self.client_auth_signature_valid,
                               challenge_response_valid |-> self.challenge_response_valid])]
        ELSE [self |-> self, ret |-> OkNone]

\* IdentityServer::update.  rpc_ok: what Session::update returns; requests:
\* the requests it reads; endpoint_private_key: Ed25519PrivateKey::generate()
IdentityServerUpdate(self, rpc_ok, requests, endpoint_private_key) ==
    IF self.rpc /\ ~rpc_ok THEN Step([self EXCEPT !.rpc = FALSE], Err("rpc"), <<>>, <<>>, FALSE)
    ELSE
    LET handled == IF self.rpc THEN IdentityServerRpcRequests(self, requests)
                   ELSE [self |-> self, replies |-> <<>>]
        results == IF self.rpc THEN IdentityServerRpcResults(handled.self, endpoint_private_key)
                   ELSE [self |-> self, replies |-> <<>>, panic |-> FALSE]
        event == IdentityServerEvent(results.self)
    IN  IF results.panic THEN Step(handled.self, Err("panic"), <<>>, handled.replies, FALSE)
        ELSE Step(event.self, event.ret, <<>>, handled.replies \o results.replies, FALSE)

(***************************************************************************)
(* Endpoint client.                                                        *)
(***************************************************************************)
\* EndpointClient::new
EndpointClientNew(server_service_id, requested_channel, client_ed25519_private) ==
    [server_service_id |-> server_service_id,
     requested_channel |-> requested_channel,
     client_ed25519_private |-> client_ed25519_private,
     state |-> "BeginHandshake",
     begin_handshake_request_cookie |-> None,
     send_response_request_cookie |-> None,
     rpc_next_cookie |-> 0]

\* EndpointClient::update, arm WaitingForServerCookie; client_cookie is what
\* OsRng fills in
EndpointClientAwaitServerCookie(self, response, client_cookie) ==
    LET cookie == Unwrap(self.begin_handshake_request_cookie)
        fail(reason) == Step(self, Err(reason), <<>>, <<>>, TRUE)
        stay == Step(self, OkNone, <<>>, <<>>, TRUE)
    IN  IF IsNone(response) THEN stay
        ELSE LET r == Unwrap(response) IN
        IF r.kind = "Pending" THEN
            IF r.cookie = cookie THEN stay ELSE fail("received unexpected pending response")
        ELSE IF r.kind = "Error" THEN
            IF r.cookie = cookie THEN Step(self, ErrRpc(r.error_code), <<>>, <<>>, TRUE)
            ELSE fail("received unexpected error response")
        ELSE IF r.cookie /= cookie THEN fail("received unexpected success response")
        ELSE IF r.result.t /= "Document" THEN fail("begin_handshake() returned unexpected value")
        ELSE IF r.result.server_cookie.t /= "Binary" THEN stay
        ELSE IF r.result.server_cookie.n /= SERVER_COOKIE_SIZE THEN fail("invalid server cookie length")
        ELSE
        LET client_service_id == V3OnionServiceIdFromPrivateKey(self.client_ed25519_private)
            client_identity_proof ==
                build_client_proof(GoslingEndpoint, self.requested_channel, client_service_id,
                                   self.server_service_id, client_cookie, r.result.server_cookie.v)
        IN  IF ~client_identity_proof.ok THEN fail(client_identity_proof.e)
            ELSE
            LET args == [client_cookie |-> BsonBinary(client_cookie),
                         client_identity |-> BsonString(V3OnionServiceIdToString(client_service_id)),
                         client_identity_proof_signature |->
                            BsonSignature(Ed25519Sign(self.client_ed25519_private, client_identity_proof.v))]
            IN  Step([self EXCEPT !.send_response_request_cookie = Some(self.rpc_next_cookie),
                                  !.rpc_next_cookie = @ + 1,
                                  !.state = "WaitingForProofVerification"],
                     OkNone, <<ClientCall(self, "send_response", args)>>, <<>>, TRUE)

\* EndpointClient::update, arm WaitingForProofVerification
EndpointClientAwaitProofVerification(self, response) ==
    LET cookie == Unwrap(self.send_response_request_cookie)
        fail(reason) == Step(self, Err(reason), <<>>, <<>>, TRUE)
        stay == Step(self, OkNone, <<>>, <<>>, TRUE)
    IN  IF IsNone(response) THEN stay
        ELSE LET r == Unwrap(response) IN
        IF r.kind = "Pending" THEN
            IF r.cookie = cookie THEN stay ELSE fail("received unexpected pending response")
        ELSE IF r.kind = "Error" THEN
            IF r.cookie = cookie THEN Step(self, ErrRpc(r.error_code), <<>>, <<>>, TRUE)
            ELSE fail("received unexpected error response")
        ELSE IF r.cookie /= cookie THEN fail("received unexpected success response")
        ELSE IF r.result.t /= "Document" THEN stay
        ELSE IF ~(r.result.server_cookie.t = "Missing" /\ r.result.endpoint_challenge.t = "Missing")
            THEN fail("result.is_empty()")
        ELSE Step([self EXCEPT !.state = "HandshakeComplete"],
                  OkEvent([type |-> "HandshakeCompleted"]), <<>>, <<>>, TRUE)

\* EndpointClient::update.  rpc_ok: what Session::update returned; response:
\* what client_next_response() returns if called; client_cookie: OsRng
EndpointClientUpdate(self, rpc_ok, response, client_cookie) ==
    LET bhrc == IsSome(self.begin_handshake_request_cookie)
        srrc == IsSome(self.send_response_request_cookie)
    IN  IF self.state = "HandshakeComplete" THEN Step(self, Err("handshake complete"), <<>>, <<>>, FALSE)
        ELSE IF ~rpc_ok THEN Step(self, Err("rpc"), <<>>, <<>>, FALSE)
        ELSE IF self.state = "BeginHandshake" /\ ~bhrc /\ ~srrc THEN
            Step([self EXCEPT !.begin_handshake_request_cookie = Some(self.rpc_next_cookie),
                              !.rpc_next_cookie = @ + 1,
                              !.state = "WaitingForServerCookie"],
                 OkNone,
                 <<ClientCall(self, "begin_handshake",
                        [version |-> BsonString(GOSLING_VERSION),
                         channel |-> BsonString(self.requested_channel)])>>,
                 <<>>, FALSE)
        ELSE IF self.state = "WaitingForServerCookie" /\ bhrc /\ ~srrc
            THEN EndpointClientAwaitServerCookie(self, response, client_cookie)
        ELSE IF self.state = "WaitingForProofVerification" /\ bhrc /\ srrc
            THEN EndpointClientAwaitProofVerification(self, response)
        ELSE Step(self, Err("unexpected state"), <<>>, <<>>, FALSE)

(***************************************************************************)
(* Endpoint server (gosling.rs).                                           *)
(***************************************************************************)
\* EndpointServer::new: client_identity is the allowed client; server_cookie
\* is what OsRng fills in
EndpointServerNew(client_identity, server_identity, server_cookie) ==
    [rpc |-> TRUE,
     server_cookie |-> server_cookie,
     client_identity |-> client_identity,
     server_identity |-> server_identity,
     state |-> "WaitingForBeginHandshake",
     requested_channel |-> None,
     handshake_succeeded |-> None]

\* a handle_begin_handshake that leaves the state as it is
EndpointServerHandleBeginHandshakeNoAdvance(self, version, channel) ==
    IF version /= GOSLING_VERSION THEN Exec(self, ExecErr(BadVersion))
    ELSE Exec(self, Ok(Some(ResultDocument(BsonBinary(self.server_cookie), BsonMissing))))

\* EndpointServer::handle_begin_handshake
EndpointServerHandleBeginHandshake(self, version, channel) ==
    IF version /= GOSLING_VERSION THEN Exec(self, ExecErr(BadVersion))
    ELSE Exec([self EXCEPT !.requested_channel = Some(channel),
                           !.state = "WaitingForSendResponse"],
              Ok(Some(ResultDocument(BsonBinary(self.server_cookie), BsonMissing))))

\* an allow list that lets every client in
EndpointServerAnyClientAllowed(self, client_identity) == TRUE

\* EndpointServer::handle_send_response: is the client on the allow list
EndpointServerClientAllowed(self, client_identity) == client_identity = self.client_identity

\* EndpointServer::handle_send_response
EndpointServerHandleSendResponse(self, client_cookie, client_identity, client_identity_proof_signature) ==
    LET client_allowed == EndpointServerClientAllowed(self, client_identity)
        client_identity_key == Ed25519PublicFromServiceId(client_identity)
        client_proof == build_client_proof(GoslingEndpoint, Unwrap(self.requested_channel), client_identity,
                                           self.server_identity, client_cookie, self.server_cookie)
    IN  IF /\ client_identity_key.ok /\ IsSome(self.requested_channel)
           /\ client_proof.ok
           /\ client_allowed
           /\ Ed25519Verify(client_identity_proof_signature, client_proof.v, client_identity_key.v)
        THEN Exec([self EXCEPT !.handshake_succeeded = Some(TRUE), !.state = "HandledSendResponse"],
                  Ok(Some(ResultDocument(BsonMissing, BsonMissing))))
        ELSE Exec([self EXCEPT !.handshake_succeeded = Some(FALSE), !.state = "HandledSendResponse"],
                  ExecErr(Failure))

\* EndpointServer::exec_function
EndpointServerExecFunction(self, name, version, args, request_cookie) ==
    IF IsNone(request_cookie) THEN Exec(self, ExecErr(RequestCookieRequired))
    ELSE IF /\ name = "begin_handshake" /\ version = 0
            /\ self.state = "WaitingForBeginHandshake" /\ IsNone(self.requested_channel)
    THEN IF ArgRemove(args, "version").t = "String" /\ ArgRemove(args, "channel").t = "String"
         THEN EndpointServerHandleBeginHandshake(self, args.version.v, args.channel.v)
         ELSE Exec(self, ExecErr(InvalidArg))
    ELSE IF /\ name = "send_response" /\ version = 0
            /\ self.state = "WaitingForSendResponse" /\ IsSome(self.requested_channel)
    THEN LET client_cookie == ArgRemove(args, "client_cookie")
             client_identity == ArgRemove(args, "client_identity")
             client_identity_proof_signature == ArgRemove(args, "client_identity_proof_signature")
         IN  IF ~(/\ client_cookie.t = "Binary" /\ client_identity.t = "String"
                  /\ client_identity_proof_signature.t = "Binary")
                 THEN Exec(self, ExecErr(InvalidArg))
             ELSE IF client_cookie.n /= CLIENT_COOKIE_SIZE THEN Exec(self, ExecErr(InvalidArg))
             ELSE IF ~V3OnionServiceIdFromString(client_identity.v).ok THEN Exec(self, ExecErr(InvalidArg))
             ELSE IF client_identity_proof_signature.n /= ED25519_SIGNATURE_SIZE
                 THEN Exec(self, ExecErr(InvalidArg))
             ELSE EndpointServerHandleSendResponse(self, client_cookie.v,
                        V3OnionServiceIdFromString(client_identity.v).v,
                        Ed25519SignatureFromRaw(client_identity_proof_signature.v))
    ELSE Exec(self, Ok(None))

RECURSIVE EndpointServerRpcRequests(_, _)
\* Session::update: every request read is handed to exec_function;
\* next_result of this server always returns None
EndpointServerRpcRequests(self, requests) ==
    IF requests = <<>> THEN [self |-> self, replies |-> <<>>]
    ELSE LET request == Head(requests)
             done == EndpointServerExecFunction(self, request.function, request.version, request.args, request.cookie)
             rest == EndpointServerRpcRequests(done.self, Tail(requests))
         IN [self |-> rest.self, replies |-> SessionReply(request, done.res) \o rest.replies]

\* EndpointServer::update
EndpointServerUpdate(self, rpc_ok, requests) ==
    IF self.rpc /\ ~rpc_ok THEN Step([self EXCEPT !.rpc = FALSE], Err("rpc"), <<>>, <<>>, FALSE)
    ELSE
    LET handled == IF self.rpc THEN EndpointServerRpcRequests(self, requests)
                   ELSE [self |-> self, replies |-> <<>>]
        me == handled.self
    IN  IF \/ me.state = "WaitingForBeginHandshake" /\ IsNone(me.requested_channel) /\ IsNone(me.handshake_succeeded)
           \/ me.state = "WaitingForSendResponse" /\ IsSome(me.requested_channel) /\ IsNone(me.handshake_succeeded)
        THEN Step(me, OkNone, <<>>, handled.replies, FALSE)
        ELSE IF me.state = "HandledSendResponse" /\ IsSome(me.requested_channel) /\ IsSome(me.handshake_succeeded)
        THEN Step([me EXCEPT !.state = "HandshakeComplete"],
                  IF Unwrap(me.handshake_succeeded)
                  THEN OkEvent([type |-> "HandshakeCompleted",
                                client_service_id |-> me.client_identity,
                                channel_name |-> Unwrap(me.requested_channel)])
                  ELSE OkNone,
                  <<>>, handled.replies, FALSE)
        ELSE Step(me, Err("unexpected state"), <<>>, handled.replies, FALSE)

(***************************************************************************)
(* Endpoint server of crates/gosling/src/endpoint_server.rs: the channel   *)
(* request is validated by the application before the server cookie is     *)
(* sent.  Its definitions carry the prefix Crate.                          *)
(***************************************************************************)
\* EndpointServer::new
CrateEndpointServerNew(client_identity, server_identity) ==
    [rpc |-> TRUE,
     server_identity |-> server_identity,
     allowed_client_identity |-> client_identity,
     state |-> "WaitingForBeginHandshake",
     begin_handshake_request_cookie |-> None,
     client_identity |-> None,
     requested_channel |-> None,
     server_cookie |-> None,
     handshake_succeeded |-> None,
     client_allowed |-> FALSE,
     client_requested_channel_valid |-> TRUE,
     client_proof_signature_valid |-> FALSE]

\* a handle_channel_request_received that does not look at the state
CrateEndpointServerHandleChannelRequestReceivedAnyState(self, client_requested_channel_valid, server_cookie) ==
    [self |-> [self EXCEPT !.server_cookie = Some(server_cookie),
                           !.client_allowed = self.client_identity = Some(self.allowed_client_identity),
                           !.client_requested_channel_valid = client_requested_channel_valid,
                           !.state = "ChannelRequestValidated"],
     ret |-> Ok(None)]

\* EndpointServer::handle_channel_request_received; server_cookie: what
\* OsRng.fill_bytes writes
CrateEndpointServerHandleChannelRequestReceived(self, client_requested_channel_valid, server_cookie) ==
    IF /\ self.state = "ValidatingChannelRequest"
       /\ IsSome(self.begin_handshake_request_cookie)
       /\ IsSome(self.client_identity)
       /\ IsSome(self.requested_channel)
       /\ IsNone(self.server_cookie)
       /\ IsNone(self.handshake_succeeded)
    THEN [self |-> [self EXCEPT !.server_cookie = Some(server_cookie),
                                !.client_allowed = Unwrap(self.client_identity) = self.allowed_client_identity,
                                !.client_requested_channel_valid = client_requested_channel_valid,
                                !.state = "ChannelRequestValidated"],
          ret |-> Ok(None)]
    ELSE [self |-> self, ret |-> Err("IncorrectUsage")]

\* EndpointServer::handle_send_response; a result with the field panic stands
\* for unreachable!()
CrateEndpointServerHandleSendResponse(self, client_cookie, client_identity, client_identity_proof_signature) ==
    LET client_identity_key == Ed25519PublicFromServiceId(client_identity)
        failed == Exec([self EXCEPT !.handshake_succeeded = Some(FALSE), !.state = "HandledSendResponse"],
                       ExecErr(Failure))
    IN  IF ~(client_identity_key.ok /\ IsSome(self.requested_channel)) THEN failed
        ELSE IF IsNone(self.server_cookie) THEN Exec(self, [ok |-> FALSE, panic |-> TRUE])
        ELSE LET client_proof == build_client_proof(GoslingEndpoint, Unwrap(self.requested_channel),
                                     client_identity, self.server_identity, client_cookie,
                                     Unwrap(self.server_cookie))
                 valid == Ed25519Verify(client_identity_proof_signature, client_proof.v, client_identity_key.v)
                 checked == [self EXCEPT !.client_proof_signature_valid = valid]
             IN  IF self.client_allowed /\ self.client_requested_channel_valid /\ valid
                 THEN Exec([checked EXCEPT !.handshake_succeeded = Some(TRUE), !.state = "HandledSendResponse"],
                           Ok(Some(ResultDocument(BsonMissing, BsonMissing))))
                 ELSE Exec([checked EXCEPT !.handshake_succeeded = Some(FALSE), !.state = "HandledSendResponse"],
                           ExecErr(Failure))

\* EndpointServer::exec_function, with handle_begin_handshake
CrateEndpointServerExecFunction(self, name, version, args, request_cookie) ==
    IF IsNone(request_cookie) THEN Exec(self, ExecErr(RequestCookieRequired))
    ELSE IF /\ name = "begin_handshake" /\ version = 0
            /\ self.state = "WaitingForBeginHandshake"
            /\ IsNone(self.client_identity) /\ IsNone(self.requested_channel)
    THEN LET client_identity == ArgRemove(args, "client_identity")
             channel_name == ArgRemove(args, "channel")
             stored == [self EXCEPT !.begin_handshake_request_cookie = request_cookie]
         IN  IF ~(/\ ArgRemove(args, "version").t = "String" /\ client_identity.t = "String"
                  /\ channel_name.t = "String")
                 THEN Exec(self, ExecErr(InvalidArg))
             ELSE IF ~V3OnionServiceIdFromString(client_identity.v).ok THEN Exec(stored, ExecErr(InvalidArg))
             ELSE LET identified == [stored EXCEPT
                                        !.client_identity = Some(V3OnionServiceIdFromString(client_identity.v).v)]
                  IN  IF ~IsAscii(channel_name.v) THEN Exec(identified, ExecErr(InvalidArg))
                      ELSE IF args.version.v /= GOSLING_VERSION THEN Exec(identified, ExecErr(BadVersion))
                      ELSE Exec([identified EXCEPT !.requested_channel = Some(channel_name.v)], Ok(None))
    ELSE IF /\ name = "send_response" /\ version = 0
            /\ self.state = "WaitingForSendResponse"
            /\ IsSome(self.client_identity) /\ IsSome(self.requested_channel)
    THEN LET client_cookie == ArgRemove(args, "client_cookie")
             client_identity_proof_signature == ArgRemove(args, "client_identity_proof_signature")
         IN  IF ~(client_cookie.t = "Binary" /\ client_identity_proof_signature.t = "Binary")
                 THEN Exec(self, ExecErr(InvalidArg))
             ELSE IF client_cookie.n /= CLIENT_COOKIE_SIZE THEN Exec(self, ExecErr(InvalidArg))
             ELSE IF client_identity_proof_signature.n /= ED25519_SIGNATURE_SIZE
                 THEN Exec(self, ExecErr(InvalidArg))
             ELSE CrateEndpointServerHandleSendResponse(self, client_cookie.v, Unwrap(self.client_identity),
                        Ed25519SignatureFromRaw(client_identity_proof_signature.v))
    ELSE Exec(self, Ok(None))

\* a next_result that answers begin_handshake while the application is still
\* validating the channel
CrateEndpointServerNextResultEarly(self) ==
    IF /\ self.state \in {"ValidatingChannelRequest", "ChannelRequestValidated"}
       /\ IsSome(self.begin_handshake_request_cookie)
    THEN NextResult([self EXCEPT !.state = "WaitingForSendResponse"],
                    Some(ResponseSuccess(Unwrap(self.begin_handshake_request_cookie),
                            ResultDocument(BsonBinary(Repeat(0, SERVER_COOKIE_SIZE)), BsonMissing))),
                    FALSE)
    ELSE NextResult(self, None, FALSE)

\* EndpointServer::next_result
CrateEndpointServerNextResult(self) ==
    IF /\ self.state = "ChannelRequestValidated"
       /\ IsSome(self.begin_handshake_request_cookie)
       /\ IsSome(self.server_cookie)
    THEN NextResult([self EXCEPT !.state = "WaitingForSendResponse"],
                    Some(ResponseSuccess(Unwrap(self.begin_handshake_request_cookie),
                            ResultDocument(BsonBinary(Unwrap(self.server_cookie)), BsonMissing))),
                    FALSE)
    ELSE NextResult(self, None, FALSE)

RECURSIVE CrateEndpointServerRpcRequests(_, _)
\* Session::update: every request read is handed to exec_function, up to one
\* that panics
CrateEndpointServerRpcRequests(self, requests) ==
    IF requests = <<>> THEN [self |-> self, replies |-> <<>>, panic |-> FALSE]
    ELSE LET request == Head(requests)
             done == CrateEndpointServerExecFunction(self, request.function, request.version, request.args,
                                                     request.cookie)
         IN  IF "panic" \in DOMAIN done.res
             THEN [self |-> self, replies |-> <<>>, panic |-> TRUE]
             ELSE LET rest == CrateEndpointServerRpcRequests(done.self, Tail(requests))
                  IN  [self |-> rest.self, replies |-> SessionReply(request, done.res) \o rest.replies,
                       panic |-> rest.panic]

\* EndpointServer::update, the match on the state
CrateEndpointServerEvent(self) ==
    LET begun == /\ IsSome(self.begin_handshake_request_cookie)
                 /\ IsSome(self.client_identity)
                 /\ IsSome(self.requested_channel)
    IN  IF /\ self.state = "WaitingForBeginHandshake" /\ begun
           /\ IsNone(self.server_cookie) /\ IsNone(self.handshake_succeeded)
        THEN [self |-> [self EXCEPT !.state = "ValidatingChannelRequest"],
              ret |-> OkEvent([type |-> "ChannelRequestReceived",
                               requested_channel |-> Unwrap(self.requested_channel)])]
        ELSE IF /\ self.state = "HandledSendResponse" /\ begun
                /\ IsSome(self.server_cookie) /\ IsSome(self.handshake_succeeded)
        THEN [self |-> [self EXCEPT !.state = "HandshakeComplete"],
              ret |-> IF Unwrap(self.handshake_succeeded)
                      THEN OkEvent([type |-> "HandshakeCompleted",
                                    client_service_id |-> Unwrap(self.client_identity),
                                    channel_name |-> Unwrap(self.requested_channel)])
                      ELSE OkEvent([type |-> "HandshakeRejected",
                                    client_allowed |-> self.client_allowed,
                                    client_requested_channel_valid |-> self.client_requested_channel_valid,
                                    client_proof_signature_valid |-> self.client_proof_signature_valid])]
        ELSE IF \/ /\ self.state = "WaitingForBeginHandshake"
                   /\ IsNone(self.begin_handshake_request_cookie) /\ IsNone(self.client_identity)
                   /\ IsNone(self.requested_channel) /\ IsNone(self.server_cookie)
                   /\ IsNone(self.handshake_succeeded)
                \/ /\ self.state = "ValidatingChannelRequest" /\ begun
                   /\ IsNone(self.server_cookie) /\ IsNone(self.handshake_succeeded)
                \/ /\ self.state \in {"ChannelRequestValidated", "WaitingForSendResponse"} /\ begun
                   /\ IsSome(self.server_cookie) /\ IsNone(self.handshake_succeeded)
        THEN [self |-> self, ret |-> OkNone]
        ELSE [self |-> self, ret |-> Err("InvalidState")]

\* EndpointServer::update.  requests: the requests Session::update reads; it
\* asks next_result once they are handled, and next_result has at most one
\* answer to give
CrateEndpointServerUpdate(self, requests) ==
    LET handled == CrateEndpointServerRpcRequests(self, requests)
        result == CrateEndpointServerNextResult(handled.self)
        replies == IF IsSome(result.res) THEN <<Reply("begin_handshake", TRUE, Unwrap(result.res))>> ELSE <<>>
        event == CrateEndpointServerEvent(result.self)
    IN  IF handled.panic THEN Step(handled.self, Err("panic"), <<>>, handled.replies, FALSE)
        ELSE Step(event.self, event.ret, <<>>, handled.replies \o replies, FALSE)

(***************************************************************************)
(* SpecProof: build_client_proof applied to arguments drawn from small     *)
(* sets.                                                                   *)
(***************************************************************************)
\* request names: every string over {NUL, 'a'} up to MaxRequestLen, and one
\* that is not ASCII
ProofRequests == SeqsUpTo({0, 97}, MaxRequestLen) \cup {<<195, 169>>}
ProofServiceIds == {V3OnionServiceIdFromPrivateKey(k) : k \in 1..2}
\* cookies that differ in their last byte only
ProofCookies == {Repeat(0, CLIENT_COOKIE_SIZE - 1) \o <<b>> : b \in {0, 171}}
ProofDomains == {GoslingIdentity, GoslingEndpoint}

ProofInputs(domain) ==
    [domain : {domain}, request : ProofRequests,
     client_service_id : ProofServiceIds, server_service_id : ProofServiceIds,
     client_cookie : ProofCookies, server_cookie : ProofCookies]

ProofOf(in) ==
    build_client_proof(in.domain, in.request, in.client_service_id,
                       in.server_service_id, in.client_cookie, in.server_cookie)

\* the variables of the specifications that are not running
ProofIdle == proof_in = None /\ proof_out = None
IdIdle == id_client = None /\ id_server = None /\ id_net = None /\ id_hist = None
EpIdle == ep_client = None /\ ep_server = None /\ ep_net = None /\ ep_hist = None
CtxIdle == ctx = None /\ ctx_hist = None

ProofInit ==
    /\ proof_in \in UNION {ProofInputs(d) : d \in ProofDomains}
    /\ proof_out = None
    /\ IdIdle /\ EpIdle /\ CtxIdle

ProofBuild ==
    /\ proof_out = None
    /\ proof_out' = Some(ProofOf(proof_in))
    /\ UNCHANGED <<proof_in, id_vars, ep_vars, ctx_vars>>

ProofNext == ProofBuild


SpecProof == ProofInit /\ [][ProofNext]_vars

\* C10: build_client_proof is injective for a fixed domain separator: no
\* other argument tuple, differing in the request (zero bytes included), a
\* service id or a cookie, yields the proof that was built.
C10_ProofInjective ==
    (IsSome(proof_out) /\ Unwrap(proof_out).ok) =>
        \A other \in ProofInputs(proof_in.domain) :
            (ProofOf(other).ok /\ ProofOf(other).v = Unwrap(proof_out).v)
                => other = proof_in

\* a proof was built for a request that holds a zero byte and another byte
C10_Witness ==
    /\ IsSome(proof_out) /\ Unwrap(proof_out).ok
    /\ proof_in.request = <<0, 97>>
    /\ proof_in.client_cookie /= proof_in.server_cookie


(***************************************************************************)
(* SpecIdentity: one IdentityClient and one IdentityServer joined by a     *)
(* working stream, as in identity_test, with the application's calls.      *)
(* In the rogue runs the peer of the server is not an IdentityClient: it   *)
(* writes requests of its own making.  A submission that fails leaves the  *)
(* state machine as it was, so only the submissions that succeed are steps.*)
(***************************************************************************)
\* number of requests a rogue peer writes
MaxForged == 3

IdClientKey == 1
IdServerKey == 2
IdRogueKey == 3
IdServerId == V3OnionServiceIdFromPrivateKey(IdServerKey)
IdClientId == V3OnionServiceIdFromPrivateKey(IdClientKey)
IdEndpoints == {<<101>>, <<195, 169>>}
IdX25519Keys == {1, 2}
IdCookies == {Repeat(0, SERVER_COOKIE_SIZE - 1) \o <<b>> : b \in {0, 171}}
IdChallenges == {<<1>>}
IdChallengeResponses == {<<2>>}

\* the send_response arguments of a peer that holds ed25519 key signer and
\* signs the proof built over proof_cookie
ForgedSendResponseArgs(self, signer, client_cookie, proof_cookie, signbit) ==
    LET server_cookie == IF IsSome(self.server_cookie) THEN Unwrap(self.server_cookie)
                         ELSE Repeat(0, SERVER_COOKIE_SIZE)
        proof == build_client_proof(GoslingIdentity, <<101>>, IdClientId, IdServerId, proof_cookie, server_cookie)
    IN  [client_cookie |-> BsonBinary(client_cookie),
         client_identity_proof_signature |-> BsonSignature(Ed25519Sign(signer, proof.v)),
         client_authorization_key |-> BsonX25519PublicKey(X25519PublicFromPrivate(1)),
         client_authorization_key_signbit |-> BsonBoolean(signbit = 1),
         client_authorization_signature |-> BsonSignature(X25519Sign(1, V3OnionServiceIdToString(IdClientId)).sig),
         challenge_response |-> BsonDocument(<<2>>)]

\* the requests a rogue peer may write next
RogueIdentityRequests(self, cookie) ==
    LET zero == Repeat(0, CLIENT_COOKIE_SIZE)
        other == Repeat(0, CLIENT_COOKIE_SIZE - 1) \o <<171>>
        begin(version, client_identity) ==
            [version |-> BsonString(version),
             client_identity |-> BsonString(client_identity),
             endpoint |-> BsonString(<<101>>)]
    IN  { Request("begin_handshake", 0, Some(cookie), begin(GOSLING_VERSION, IdClientId)),
          Request("begin_handshake", 0, Some(cookie), begin(<<48>>, IdClientId)),
          Request("begin_handshake", 0, Some(cookie), begin(GOSLING_VERSION, <<97>>)),
          Request("begin_handshake", 0, None, begin(GOSLING_VERSION, IdClientId)),
          Request("send_response", 0, Some(cookie), ForgedSendResponseArgs(self, IdClientKey, zero, zero, 1)),
          Request("send_response", 0, Some(cookie), ForgedSendResponseArgs(self, IdRogueKey, zero, zero, 1)),
          Request("send_response", 0, Some(cookie), ForgedSendResponseArgs(self, IdClientKey, zero, other, 1)),
          Request("send_response", 0, Some(cookie), ForgedSendResponseArgs(self, IdClientKey, zero, zero, 0)),
          Request("send_response", 0, Some(cookie), ForgedSendResponseArgs(self, IdClientKey, <<0>>, zero, 1)) }

\* the replies just sent, with what the application had submitted by then
Annotate(replies, hist) ==
    [i \in 1..Len(replies) |->
        [to |-> replies[i].to, deferred |-> replies[i].deferred, resp |-> replies[i].resp,
         challenge_submitted |-> hist.challenge_submitted,
         verdict_submitted |-> hist.verdict_submitted]]

\* the calls just made, with the events the client had emitted and whether
\* the application had submitted its response by then
ClientCallsMade(calls, hist) ==
    [i \in 1..Len(calls) |->
        [function |-> calls[i].function,
         events |-> hist.client_events,
         response_submitted |-> hist.response_submitted]]

RECURSIVE Visited(_, _)
\* the states seen so far with the states of one more call added, a state
\* that lasts counted once
Visited(seen, states) ==
    IF states = <<>> THEN seen
    ELSE Visited(IF seen[Len(seen)] = Head(states) THEN seen ELSE Append(seen, Head(states)), Tail(states))

\* the states an IdentityServer::update() passes through: after the requests
\* were executed, after next_result was asked, after the match on the state
IdentityServerUpdateStates(self, rpc_ok, requests, endpoint_private_key) ==
    IF ~self.rpc \/ ~rpc_ok THEN <<IdentityServerUpdate(self, rpc_ok, requests, endpoint_private_key).self.state>>
    ELSE \* exec_function is run once per request
         LET handled == IdentityServerRpcRequests(self, requests).self
         IN  <<handled.state,
               IdentityServerRpcResults(handled, endpoint_private_key).self.state,
               IdentityServerUpdate(self, rpc_ok, requests, endpoint_private_key).self.state>>

\* the responses of a sequence of replies
Responses(replies) == [i \in 1..Len(replies) |-> replies[i].resp]

\* the events a sequence of update() results adds
Emitted(ret) == IF ret.ok /\ IsSome(ret.v) THEN <<Unwrap(ret.v)>> ELSE <<>>

IdInit ==
    /\ \E rogue \in BOOLEAN :
       \E requested_endpoint \in IdEndpoints :
       \E client_x25519_private \in IdX25519Keys :
        /\ rogue => (requested_endpoint = <<101>> /\ client_x25519_private = 1)
        /\ id_client = IdentityClientNew(IdServerId, requested_endpoint, IdClientKey, client_x25519_private)
        /\ id_hist = [rogue |-> rogue, forged |-> 0,
                      client_events |-> <<>>, server_events |-> <<>>,
                      client_failed |-> None, server_failed |-> None,
                      replies |-> <<>>,
                      challenge_submitted |-> FALSE, verdict_submitted |-> FALSE,
                      challenge_flags |-> None, verdict |-> None,
                      server_states |-> <<"WaitingForBeginHandshake">>,
                      client_calls |-> <<>>, response_submitted |-> FALSE]
    /\ id_server = IdentityServerNew(IdServerId)
    /\ id_net = [c2s |-> <<>>, s2c |-> <<>>]
    /\ ProofIdle /\ EpIdle /\ CtxIdle

\* the application ticks the client
IdClientUpdate ==
    /\ ~id_hist.rogue
    /\ IsNone(id_hist.client_failed)
    /\ \E client_cookie \in IdCookies :
        \E response \in {IF id_net.s2c = <<>> THEN None ELSE Some(Head(id_net.s2c))} :
        \E step \in {IdentityClientUpdate(id_client, TRUE, response, client_cookie)} :
            /\ id_client' = step.self
            /\ id_net' = [c2s |-> id_net.c2s \o step.calls,
                          s2c |-> IF step.polled /\ id_net.s2c /= <<>> THEN Tail(id_net.s2c) ELSE id_net.s2c]
            /\ id_hist' = [id_hist EXCEPT
                              !.client_events = @ \o Emitted(step.ret),
                              !.client_failed = IF step.ret.ok THEN None ELSE Some(step.ret.e),
                              !.client_calls = @ \o ClientCallsMade(step.calls, id_hist)]
    /\ UNCHANGED <<id_server, proof_vars, ep_vars, ctx_vars>>

\* the application answers ChallengeReceived
IdClientSendResponse ==
    /\ ~id_hist.rogue
    /\ IsNone(id_hist.client_failed)
    /\ \E challenge_response \in IdChallengeResponses :
        \E call \in {IdentityClientSendResponse(id_client, challenge_response)} :
            /\ call.ret.ok
            /\ id_client' = call.self
    /\ id_hist' = [id_hist EXCEPT !.response_submitted = TRUE]
    /\ UNCHANGED <<id_server, id_net, proof_vars, ep_vars, ctx_vars>>

\* the application ticks the server
IdServerUpdate ==
    /\ IsNone(id_hist.server_failed)
    /\ \E endpoint_private_key \in Ed25519PrivateKeys :
        \E step \in {IdentityServerUpdate(id_server, TRUE, id_net.c2s, endpoint_private_key)} :
        \E states \in {IdentityServerUpdateStates(id_server, TRUE, id_net.c2s, endpoint_private_key)} :
            /\ id_server' = step.self
            /\ id_net' = [c2s |-> <<>>,
                          s2c |-> IF id_hist.rogue THEN <<>> ELSE id_net.s2c \o Responses(step.replies)]
            /\ id_hist' = [id_hist EXCEPT
                              !.server_events = @ \o Emitted(step.ret),
                              !.server_failed = IF step.ret.ok THEN None ELSE Some(step.ret.e),
                              !.replies = @ \o Annotate(step.replies, id_hist),
                              !.server_states = Visited(@, states)]
    /\ UNCHANGED <<id_client, proof_vars, ep_vars, ctx_vars>>

\* the application answers EndpointRequestReceived
IdServerSendChallenge ==
    /\ IsNone(id_hist.server_failed)
    /\ \E client_allowed \in BOOLEAN, endpoint_valid \in BOOLEAN :
       \E endpoint_challenge \in IdChallenges, server_cookie \in IdCookies :
        \E call \in {IdentityServerSendChallenge(id_server, client_allowed, endpoint_valid, endpoint_challenge, server_cookie)} :
            /\ call.ret.ok
            /\ id_server' = call.self
            /\ id_hist' = [id_hist EXCEPT !.challenge_submitted = TRUE,
                                          !.challenge_flags = Some(<<client_allowed, endpoint_valid>>),
                                          !.server_states = Visited(@, <<call.self.state>>)]
    /\ UNCHANGED <<id_client, id_net, proof_vars, ep_vars, ctx_vars>>

\* the application answers ChallengeResponseReceived
IdServerSendChallengeVerification ==
    /\ IsNone(id_hist.server_failed)
    /\ \E challenge_response_valid \in BOOLEAN :
        \E call \in {IdentityServerSendChallengeVerification(id_server, challenge_response_valid)} :
            /\ call.ret.ok
            /\ id_server' = call.self
            /\ id_hist' = [id_hist EXCEPT !.verdict_submitted = TRUE,
                                          !.verdict = Some(challenge_response_valid),
                                          !.server_states = Visited(@, <<call.self.state>>)]
    /\ UNCHANGED <<id_client, id_net, proof_vars, ep_vars, ctx_vars>>

\* a rogue peer writes a request
IdRogueSend ==
    /\ id_hist.rogue
    /\ id_hist.forged < MaxForged
    /\ \E request \in RogueIdentityRequests(id_server, id_hist.forged) :
        id_net' = [id_net EXCEPT !.c2s = Append(@, request)]
    /\ id_hist' = [id_hist EXCEPT !.forged = @ + 1]
    /\ UNCHANGED <<id_client, id_server, proof_vars, ep_vars, ctx_vars>>

IdNext ==
    \/ IdClientUpdate
    \/ IdClientSendResponse
    \/ IdServerUpdate
    \/ IdServerSendChallenge
    \/ IdServerSendChallengeVerification
    \/ IdRogueSend

SpecIdentity == IdInit /\ [][IdNext]_vars


\* the five verification flags of the server
IdFlags ==
    <<id_server.client_allowed, id_server.client_requested_endpoint_valid,
      id_server.client_proof_signature_valid, id_server.client_auth_signature_valid,
      id_server.challenge_response_valid>>
IdAllFlags == \A i \in 1..5 : IdFlags[i]

\* the events of a type in a sequence of events
EventsOf(events, type) == {i \in 1..Len(events) : events[i].type = type}

\* the replies sent to a function's requests
IdRepliesTo(function) == {i \in 1..Len(id_hist.replies) : id_hist.replies[i].to = function}

\* C1: in every identity handshake in which all five server-side verification
\* flags are true, the endpoint ServiceId of the client's HandshakeCompleted
\* event is the ServiceId derived from the endpoint private key of the
\* server's HandshakeCompleted event (and the client completes in no other
\* handshake).
C1_ClientServiceIdFromServerKey ==
    \A i \in EventsOf(id_hist.client_events, "HandshakeCompleted") :
        /\ IdAllFlags
        /\ EventsOf(id_hist.server_events, "HandshakeCompleted") /= {}
        /\ \A j \in EventsOf(id_hist.server_events, "HandshakeCompleted") :
            id_hist.client_events[i].endpoint_service_id =
                V3OnionServiceIdFromPrivateKey(id_hist.server_events[j].endpoint_private_key)

C1_Witness ==
    /\ IdAllFlags
    /\ EventsOf(id_hist.client_events, "HandshakeCompleted") /= {}
    /\ EventsOf(id_hist.server_events, "HandshakeCompleted") /= {}

\* C2: the identity server answers send_response with success, keeps a
\* generated endpoint private key and emits HandshakeCompleted if and only if
\* all five verification flags are true; when a flag is false it answers with
\* the runtime error Failure, keeps no key and emits HandshakeRejected.
C2_SuccessIffAllFlags ==
    /\ \A i \in IdRepliesTo("send_response") :
        LET r == id_hist.replies[i] IN
        r.deferred =>
            /\ (r.resp.kind = "Success") = IdAllFlags
            /\ (r.resp.kind = "Error" /\ r.resp.error_code = Failure) = ~IdAllFlags
            /\ IsSome(id_server.endpoint_private_key) = IdAllFlags
            /\ id_server.state = "HandshakeComplete"
    /\ IsSome(id_server.endpoint_private_key) => IdAllFlags
    /\ EventsOf(id_hist.server_events, "HandshakeCompleted") /= {} =>
        /\ IdAllFlags
        /\ EventsOf(id_hist.server_events, "HandshakeRejected") = {}
    /\ \A j \in EventsOf(id_hist.server_events, "HandshakeCompleted") :
        Some(id_hist.server_events[j].endpoint_private_key) = id_server.endpoint_private_key
    /\ EventsOf(id_hist.server_events, "HandshakeRejected") /= {} => ~IdAllFlags
    /\ id_server.state = "HandshakeComplete" =>
        /\ Cardinality(EventsOf(id_hist.server_events, "HandshakeCompleted")) = (IF IdAllFlags THEN 1 ELSE 0)
        /\ Cardinality(EventsOf(id_hist.server_events, "HandshakeRejected")) = (IF IdAllFlags THEN 0 ELSE 1)
        /\ \E i \in IdRepliesTo("send_response") : id_hist.replies[i].deferred

C2_Witness ==
    /\ id_server.state = "HandshakeComplete"
    /\ IdFlags = <<TRUE, TRUE, TRUE, TRUE, FALSE>>
    /\ EventsOf(id_hist.server_events, "HandshakeRejected") /= {}
    /\ \E i \in IdRepliesTo("send_response") : id_hist.replies[i].resp.kind = "Error"

\* C3, as stated: no reply to a send_response request (a success or an
\* error) is sent before the application has submitted its verdict with
\* send_challenge_verification.
C3_NoReplyBeforeVerdict ==
    \A i \in IdRepliesTo("send_response") :
        id_hist.replies[i].resp.kind /= "Pending" => id_hist.replies[i].verdict_submitted

\* C3, amended: the reply that next_result sends for an accepted
\* send_response, and every success reply to send_response, is sent only
\* after the verdict was submitted; what the server sends before the verdict
\* is the pending notice of an accepted request or the runtime error
\* InvalidArg or Failure of a request exec_function refuses.
C3_DeferredReplyAfterVerdict ==
    \A i \in IdRepliesTo("send_response") :
        LET r == id_hist.replies[i] IN
        /\ (r.deferred \/ r.resp.kind = "Success") => r.verdict_submitted
        /\ ~r.verdict_submitted =>
            \/ r.resp.kind = "Pending"
            \/ r.resp.kind = "Error" /\ r.resp.error_code \in {InvalidArg, Failure}

C3_Witness ==
    \E i \in IdRepliesTo("send_response"), j \in IdRepliesTo("send_response") :
        /\ id_hist.replies[i].deferred /\ id_hist.replies[i].verdict_submitted
        /\ id_hist.replies[j].resp.kind = "Error" /\ ~id_hist.replies[j].verdict_submitted

\* the replies that carry {server_cookie, endpoint_challenge}
IdChallengeReplies ==
    {i \in IdRepliesTo("begin_handshake") : id_hist.replies[i].resp.kind = "Success"}

\* C4: the {server_cookie, endpoint_challenge} reply to begin_handshake is
\* not sent until the application has supplied the challenge with
\* send_challenge; it is sent once, with the request cookie stored from
\* begin_handshake, and the server accepts send_response only after it.
C4_ChallengeReplyOnceAfterSendChallenge ==
    /\ Cardinality(IdChallengeReplies) <= 1
    /\ \A i \in IdChallengeReplies :
        LET r == id_hist.replies[i] IN
        /\ r.deferred
        /\ r.challenge_submitted
        /\ Some(r.resp.cookie) = id_server.begin_handshake_request_cookie
        /\ ~id_hist.rogue => Some(r.resp.cookie) = id_client.begin_handshake_request_cookie
        /\ Some(r.resp.result.server_cookie.v) = id_server.server_cookie
    /\ id_hist.challenge_submitted /\ id_server.state /= "ChallengeReady" => IdChallengeReplies /= {}
    /\ \A j \in IdRepliesTo("send_response") :
        (id_hist.replies[j].resp.kind /= "Error" \/ id_hist.replies[j].deferred)
            => \E i \in IdChallengeReplies : i < j
    /\ ( \/ IsSome(id_server.send_response_request_cookie)
         \/ IsSome(id_server.client_auth_key)
         \/ IsSome(id_server.challenge_response) ) => IdChallengeReplies /= {}

C4_Witness ==
    /\ IdChallengeReplies /= {}
    /\ IsSome(id_server.client_auth_key)
    /\ \E j \in IdRepliesTo("send_response") : id_hist.replies[j].resp.kind = "Error" /\ ~id_hist.replies[j].challenge_submitted


\* C16: once send_challenge has succeeded for a handshake, every further
\* send_challenge for it fails, whatever its arguments, and leaves the
\* server as it was: the challenge document, the two policy flags and the
\* server cookie recorded by the first call included.
C16_SecondChallengeRefused ==
    id_hist.challenge_submitted =>
        \A client_allowed \in BOOLEAN, endpoint_valid \in BOOLEAN :
        \A endpoint_challenge \in IdChallenges \cup {<<3>>}, server_cookie \in IdCookies :
            LET call == IdentityServerSendChallenge(id_server, client_allowed, endpoint_valid,
                                                    endpoint_challenge, server_cookie)
            IN  ~call.ret.ok /\ call.self = id_server

\* the first send_challenge has just succeeded, its challenge is still held,
\* and a second one is refused
C16_Witness ==
    /\ id_hist.challenge_submitted
    /\ id_server.state = "ChallengeReady"
    /\ id_server.endpoint_challenge \in {Some(challenge) : challenge \in IdChallenges}
    /\ ~IdentityServerSendChallenge(id_server, ~id_server.client_allowed, TRUE, <<3>>,
                                    Unwrap(id_server.server_cookie)).ret.ok

\* C22, as stated: every runtime error reply the identity server puts on the
\* wire carries the code of one of the four errors, and that code is
\* BadVersion = 1, RequestCookieRequired = 2, InvalidArg = 3, Failure = 4.
C22_WireErrorCodes ==
    \A i \in 1..Len(id_hist.replies) :
        id_hist.replies[i].resp.kind = "Error" =>
            \E error \in {<<BadVersion, 1>>, <<RequestCookieRequired, 2>>, <<InvalidArg, 3>>, <<Failure, 4>>} :
                /\ id_hist.replies[i].resp.error_code = error[1]
                /\ error[1] = error[2]

\* C23, as stated: a server that reads the client's begin_handshake with a
\* version string other than the protocol version replies with the BadVersion
\* error, and the client that reads that reply ends with a failure carrying
\* remote error code 1.
C23_BadVersionFailsClientWithCode1 ==
    (~id_hist.rogue /\ id_client.state = "WaitingForChallenge") =>
        \A version \in {<<48>>, <<>>} :
        \E cookie \in {Unwrap(id_client.begin_handshake_request_cookie)} :
        \E exec \in {IdentityServerExecFunction(IdentityServerNew(IdServerId), "begin_handshake", 0,
                        [version |-> BsonString(version),
                         client_identity |-> BsonString(V3OnionServiceIdToString(id_client.client_service_id)),
                         endpoint |-> BsonString(id_client.requested_endpoint)],
                        Some(cookie))} :
        \E reply \in {Head(SessionReply(Request("begin_handshake", 0, Some(cookie), <<>>), exec.res))} :
            /\ exec.res = ExecErr(BadVersion)
            /\ reply.resp = ResponseError(cookie, BadVersion)
            /\ \A client_cookie \in IdCookies :
                \E step \in {IdentityClientUpdate(id_client, TRUE, Some(reply.resp), client_cookie)} :
                    /\ ~step.ret.ok
                    /\ step.ret = ErrRpc(1)

\* send_response arguments of the identity handshake with one binary
\* argument of the wrong byte length
WrongLengthSendResponseArgs(self) ==
    LET zero == Repeat(0, CLIENT_COOKIE_SIZE)
        args == ForgedSendResponseArgs(self, IdClientKey, zero, zero, 1)
    IN  { [args EXCEPT !.client_cookie = BsonBinary(<<0>>)],
          [args EXCEPT !.client_cookie = BsonBinary(zero \o <<0>>)],
          [args EXCEPT !.client_identity_proof_signature = BsonBinary(<<IdClientKey + 10>>)],
          [args EXCEPT !.client_authorization_key = BsonBinary(<<21, 0>>)],
          [args EXCEPT !.client_authorization_signature = BsonBinary(<<21>>)] }

\* send_response arguments of the endpoint handshake with a client cookie
\* or a signature of the wrong byte length
WrongLengthEndpointSendResponseArgs ==
    LET args == [client_cookie |-> BsonBinary(Repeat(0, CLIENT_COOKIE_SIZE)),
                 client_identity |-> BsonString(V3OnionServiceIdToString(IdClientId)),
                 client_identity_proof_signature |-> BsonSignature(Ed25519Sign(IdClientKey, <<>>))]
    IN  { [args EXCEPT !.client_cookie = BsonBinary(<<0>>)],
          [args EXCEPT !.client_identity_proof_signature = BsonBinary(<<IdClientKey + 10>>)] }

\* an endpoint server that has answered begin_handshake
EndpointServerAwaitingSendResponse ==
    EndpointServerExecFunction(EndpointServerNew(IdClientId, IdServerId, Repeat(0, SERVER_COOKIE_SIZE)),
        "begin_handshake", 0, [version |-> BsonString(GOSLING_VERSION), channel |-> BsonString(<<99>>)],
        Some(0)).self

\* C24: a send_response whose client cookie, signature or authorization key
\* has the wrong byte length is answered with the InvalidArg error and the
\* server does not advance: the identity server stays in
\* WaitingForSendResponse, emits nothing and records no signature flag,
\* client auth key, challenge response or endpoint key (only the request
\* cookie of the call is stored); the endpoint server stays as it was.
C24_WrongLengthIsInvalidArg ==
    /\ id_server.state = "WaitingForSendResponse" =>
        \A args \in WrongLengthSendResponseArgs(id_server) :
        \E step \in {IdentityServerUpdate(id_server, TRUE, <<Request("send_response", 0, Some(7), args)>>, 1)} :
            /\ Responses(step.replies) = <<ResponseError(7, InvalidArg)>>
            /\ step.ret = OkNone
            /\ step.self.state = "WaitingForSendResponse"
            /\ ~step.self.client_proof_signature_valid
            /\ ~step.self.client_auth_signature_valid
            /\ ~step.self.challenge_response_valid
            /\ IsNone(step.self.client_auth_key)
            /\ IsNone(step.self.challenge_response)
            /\ IsNone(step.self.endpoint_private_key)
            /\ step.self = [id_server EXCEPT !.send_response_request_cookie = Some(7)]
    /\ EndpointServerAwaitingSendResponse.state = "WaitingForSendResponse"
    /\ \A args \in WrongLengthEndpointSendResponseArgs :
        \E step \in {EndpointServerUpdate(EndpointServerAwaitingSendResponse, TRUE,
                                          <<Request("send_response", 0, Some(7), args)>>)} :
            /\ Responses(step.replies) = <<ResponseError(7, InvalidArg)>>
            /\ step.ret = OkNone
            /\ step.self = EndpointServerAwaitingSendResponse

\* a peer has sent a send_response with a one-byte client cookie: the reply
\* on the wire is InvalidArg and the server still waits for send_response
C24_Witness ==
    /\ id_server.state = "WaitingForSendResponse"
    /\ IsSome(id_server.send_response_request_cookie)
    /\ IsNone(id_server.challenge_response)
    /\ \E i \in 1..Len(id_hist.replies) :
        /\ id_hist.replies[i].to = "send_response"
        /\ id_hist.replies[i].resp.kind = "Error"
        /\ id_hist.replies[i].resp.error_code = InvalidArg

\* C25: with an honest client, the server's HandshakeRejected event carries
\* the client_allowed and client_requested_endpoint_valid given to
\* send_challenge, the verdict given to send_challenge_verification and both
\* signature flags true; the reply to send_response is then an error, the
\* client never completes, and once it has read the reply its update() has
\* failed with the RPC error.
C25_RejectedReportsApplicationInputs ==
    ~id_hist.rogue =>
        \A i \in EventsOf(id_hist.server_events, "HandshakeRejected") :
            /\ IsSome(id_hist.challenge_flags) /\ IsSome(id_hist.verdict)
            /\ id_hist.server_events[i].client_allowed = Unwrap(id_hist.challenge_flags)[1]
            /\ id_hist.server_events[i].client_requested_endpoint_valid = Unwrap(id_hist.challenge_flags)[2]
            /\ id_hist.server_events[i].challenge_response_valid = Unwrap(id_hist.verdict)
            /\ id_hist.server_events[i].client_proof_signature_valid
            /\ id_hist.server_events[i].client_auth_signature_valid
            /\ \E j \in IdRepliesTo("send_response") :
                /\ id_hist.replies[j].resp.kind = "Error"
                /\ id_hist.replies[j].resp.error_code = Failure
            /\ EventsOf(id_hist.client_events, "HandshakeCompleted") = {}
            /\ IsSome(id_hist.client_failed) => id_hist.client_failed = Some(ErrRpc(Failure).e)
            /\ id_net.s2c = <<>> => IsSome(id_hist.client_failed)

\* an honest handshake the application has refused with one false input: the
\* server has emitted HandshakeRejected and the client has read the error
C25_Witness ==
    /\ ~id_hist.rogue
    /\ EventsOf(id_hist.server_events, "HandshakeRejected") /= {}
    /\ id_hist.challenge_flags = Some(<<TRUE, FALSE>>)
    /\ id_hist.verdict = Some(TRUE)
    /\ id_hist.client_failed = Some(ErrRpc(Failure).e)

\* the handshakes of identity_test: an IdentityClient and an IdentityServer on
\* the two ends of one stream
IdTestInit ==
    /\ IdInit
    /\ ~id_hist.rogue

IdTestNext ==
    \/ IdClientUpdate
    \/ IdClientSendResponse
    \/ IdServerUpdate
    \/ IdServerSendChallenge
    \/ IdServerSendChallengeVerification

\* identity_test calls both update()s in every turn of its loop and answers
\* each event in the turn that returned it: no update() and no submission the
\* machine is waiting for is put off for ever
SpecIdentityFair ==
    /\ IdTestInit
    /\ [][IdTestNext]_vars
    /\ WF_vars(IdClientUpdate)
    /\ WF_vars(IdClientSendResponse)
    /\ WF_vars(IdServerUpdate)
    /\ WF_vars(IdServerSendChallenge)
    /\ WF_vars(IdServerSendChallengeVerification)

\* an IdentityClient asking for an ASCII endpoint
IdHonestAscii == ~id_hist.rogue /\ IsAscii(id_client.requested_endpoint)

\* the application has given a false flag with the challenge or a false
\* verdict on the challenge response
IdRefused ==
    \/ IsSome(id_hist.challenge_flags) /\ Unwrap(id_hist.challenge_flags) /= <<TRUE, TRUE>>
    \/ id_hist.verdict = Some(FALSE)

\* both machines are in HandshakeComplete and both have emitted
\* HandshakeCompleted
IdBothCompleted ==
    /\ id_client.state = "HandshakeComplete"
    /\ id_server.state = "HandshakeComplete"
    /\ EventsOf(id_hist.client_events, "HandshakeCompleted") /= {}
    /\ EventsOf(id_hist.server_events, "HandshakeCompleted") /= {}

IdentityServerStateOrder ==
    <<"WaitingForBeginHandshake", "GettingChallenge", "ChallengeReady", "WaitingForSendResponse",
      "GettingChallengeVerification", "ChallengeVerificationReady", "ChallengeVerificationResponseSent",
      "HandshakeComplete">>

\* C28: the states an identity server has passed through, in the order it
\* entered them, are the first states of the listed order (none skipped, none
\* entered twice), and the events it has emitted are the first of
\* EndpointRequestReceived, ChallengeResponseReceived and then one of
\* HandshakeCompleted or HandshakeRejected, each at most once.
C28_ServerStatesAndEventsInOrder ==
    /\ Len(id_hist.server_states) <= Len(IdentityServerStateOrder)
    /\ id_hist.server_states = SubSeq(IdentityServerStateOrder, 1, Len(id_hist.server_states))
    /\ id_server.state = id_hist.server_states[Len(id_hist.server_states)]
    /\ Len(id_hist.server_events) <= 3
    /\ \A i \in 1..Len(id_hist.server_events) :
        id_hist.server_events[i].type \in
            CASE i = 1 -> {"EndpointRequestReceived"}
              [] i = 2 -> {"ChallengeResponseReceived"}
              [] OTHER -> {"HandshakeCompleted", "HandshakeRejected"}
    /\ id_server.state = "HandshakeComplete" <=> Len(id_hist.server_events) = 3

\* a server that a rogue peer has driven through all eight states, with its
\* three events emitted
C28_Witness ==
    /\ id_hist.server_states = IdentityServerStateOrder
    /\ Len(id_hist.server_events) = 3
    /\ id_hist.rogue

\* C29: an identity client makes at most two RPC calls, begin_handshake and
\* then send_response, and has made both when it completes; it makes
\* send_response only after it has emitted ChallengeReceived and the
\* application has submitted a challenge response; while it waits for that
\* submission its update() returns no event, sends no call and changes
\* nothing.
C29_ClientCallsInOrder ==
    ~id_hist.rogue =>
        /\ Len(id_hist.client_calls) <= 2
        /\ \A i \in 1..Len(id_hist.client_calls) :
            /\ id_hist.client_calls[i].function = <<"begin_handshake", "send_response">>[i]
            /\ i = 2 =>
                /\ EventsOf(id_hist.client_calls[i].events, "ChallengeReceived") /= {}
                /\ id_hist.client_calls[i].response_submitted
        /\ EventsOf(id_hist.client_events, "HandshakeCompleted") /= {} => Len(id_hist.client_calls) = 2
        /\ (id_client.state = "WaitingForChallengeResponse" /\ IsNone(id_client.endpoint_challenge_response)) =>
            \A client_cookie \in IdCookies :
            \A response \in {None} \cup {Some(id_net.s2c[i]) : i \in 1..Len(id_net.s2c)} :
            \E step \in {IdentityClientUpdate(id_client, TRUE, response, client_cookie)} :
                /\ step.ret = OkNone
                /\ step.calls = <<>>
                /\ step.self = id_client

\* a client that has emitted ChallengeReceived, was given the response, sent
\* send_response and completed
C29_Witness ==
    /\ ~id_hist.rogue
    /\ Len(id_hist.client_calls) = 2
    /\ id_hist.client_calls[2].response_submitted
    /\ EventsOf(id_hist.client_events, "HandshakeCompleted") /= {}

\* the fields of a machine other than those named are the same in both
SameBut(before, after, fields) == \A f \in DOMAIN before \ fields : after[f] = before[f]

\* what is on the wire, the replies the server has sent and the calls the
\* client has made are as before
IdNothingSent ==
    /\ id_net' = id_net
    /\ id_hist'.replies = id_hist.replies
    /\ id_hist'.client_calls = id_hist.client_calls

\* a step of one of the three submissions records the inputs and sends
\* nothing; the update() that follows sends the reply or the call
IdSubmissionStep ==
    /\ IdServerSendChallenge =>
        /\ IdNothingSent
        /\ id_server'.state = "ChallengeReady"
        /\ IsSome(id_server'.server_cookie) /\ IsSome(id_server'.endpoint_challenge)
        /\ <<id_server'.client_allowed, id_server'.client_requested_endpoint_valid>> = Unwrap(id_hist'.challenge_flags)
        /\ SameBut(id_server, id_server', {"state", "server_cookie", "endpoint_challenge", "client_allowed",
                                           "client_requested_endpoint_valid"})
        /\ \A endpoint_private_key \in Ed25519PrivateKeys :
            \E step \in {IdentityServerUpdate(id_server', TRUE, <<>>, endpoint_private_key)} :
                /\ Len(step.replies) = 1
                /\ step.replies[1].to = "begin_handshake"
                /\ step.replies[1].resp.cookie = Unwrap(id_server.begin_handshake_request_cookie)
    /\ IdServerSendChallengeVerification =>
        /\ IdNothingSent
        /\ id_server'.state = "ChallengeVerificationReady"
        /\ id_server'.challenge_response_valid = Unwrap(id_hist'.verdict)
        /\ SameBut(id_server, id_server', {"state", "challenge_response_valid"})
        /\ \A endpoint_private_key \in Ed25519PrivateKeys :
            \E step \in {IdentityServerUpdate(id_server', TRUE, <<>>, endpoint_private_key)} :
                /\ Len(step.replies) = 1
                /\ step.replies[1].to = "send_response"
                /\ step.replies[1].resp.cookie = Unwrap(id_server.send_response_request_cookie)
    /\ IdClientSendResponse =>
        /\ IdNothingSent
        /\ IsSome(id_client'.endpoint_challenge_response)
        /\ SameBut(id_client, id_client', {"endpoint_challenge_response"})
        /\ IsAscii(id_client.requested_endpoint) =>
            \A client_cookie \in IdCookies :
            \E step \in {IdentityClientUpdate(id_client', TRUE, None, client_cookie)} :
                /\ Len(step.calls) = 1
                /\ step.calls[1].function = "send_response"

\* C30: send_challenge and send_challenge_verification of the identity
\* server and send_response of the identity client only record their inputs
\* and (the server's two) change the state: nothing is written to the wire by
\* the call, and it is the next update() of that machine that sends the reply
\* or the call.
C30_SubmissionsSendNothing == [][IdSubmissionStep]_vars

\* all three submissions have been made and the machines have sent what was
\* submitted
C30_Witness ==
    /\ id_hist.response_submitted
    /\ IsSome(id_hist.challenge_flags)
    /\ IsSome(id_hist.verdict)
    /\ Len(id_hist.client_calls) = 2
    /\ Cardinality(IdRepliesTo("send_response")) >= 1

(***************************************************************************)
(* SpecEndpoint: one EndpointClient and one EndpointServer joined by a     *)
(* working stream, as in endpoint_test; the server is built for the        *)
(* allowed client IdClientId as Context::update builds it for a listener.  *)
(* In the rogue runs the peer writes requests of its own making.           *)
(***************************************************************************)
EpChannels == {<<99>>, <<99, 104>>, <<195, 169>>}

\* the send_response arguments of a peer that names client_identity and
\* signs with the ed25519 key signer
ForgedEndpointResponseArgs(self, client_identity, signer, client_cookie) ==
    LET proof == build_client_proof(GoslingEndpoint, <<99>>, V3OnionServiceIdFromPrivateKey(IdClientKey),
                                    self.server_identity, Repeat(0, CLIENT_COOKIE_SIZE), self.server_cookie)
    IN  [client_cookie |-> BsonBinary(client_cookie),
         client_identity |-> BsonString(client_identity),
         client_identity_proof_signature |-> BsonSignature(Ed25519Sign(signer, proof.v))]

\* the requests a rogue peer may write next
RogueEndpointRequests(self, cookie) ==
    LET zero == Repeat(0, CLIENT_COOKIE_SIZE)
        begin(version) == [version |-> BsonString(version), channel |-> BsonString(<<99>>)]
    IN  { Request("begin_handshake", 0, Some(cookie), begin(GOSLING_VERSION)),
          Request("begin_handshake", 0, Some(cookie), begin(<<48>>)),
          Request("send_response", 0, Some(cookie), ForgedEndpointResponseArgs(self, IdClientId, IdClientKey, zero)),
          Request("send_response", 0, Some(cookie), ForgedEndpointResponseArgs(self, IdClientId, IdRogueKey, zero)),
          Request("send_response", 0, Some(cookie), ForgedEndpointResponseArgs(self, <<97>>, IdClientKey, zero)),
          Request("send_response", 0, Some(cookie), ForgedEndpointResponseArgs(self, IdClientId, IdClientKey, <<0>>)) }

EpInit ==
    /\ \E rogue \in BOOLEAN :
       \E client_ed25519_private \in {IdClientKey, IdRogueKey} :
       \E requested_channel \in EpChannels :
        /\ rogue => (client_ed25519_private = IdClientKey /\ requested_channel = <<99>>)
        /\ ep_client = EndpointClientNew(IdServerId, requested_channel, client_ed25519_private)
        /\ ep_hist = [rogue |-> rogue, forged |-> 0,
                      client_events |-> <<>>, server_events |-> <<>>,
                      client_failed |-> None, server_failed |-> None,
                      requests |-> <<>>, replies |-> <<>>]
    /\ \E server_cookie \in IdCookies :
        ep_server = EndpointServerNew(IdClientId, IdServerId, server_cookie)
    /\ ep_net = [c2s |-> <<>>, s2c |-> <<>>]
    /\ ProofIdle /\ IdIdle /\ CtxIdle

\* the event Context::update makes of the client's HandshakeCompleted
EndpointClientCompleted(self, ret) ==
    IF ret.ok /\ IsSome(ret.v)
    THEN <<[type |-> "HandshakeCompleted",
            endpoint_service_id |-> self.server_service_id,
            channel_name |-> self.requested_channel]>>
    ELSE <<>>

\* the application ticks the client
EpClientUpdate ==
    /\ ~ep_hist.rogue
    /\ IsNone(ep_hist.client_failed)
    /\ \E client_cookie \in IdCookies :
        \E step \in {EndpointClientUpdate(ep_client, TRUE,
                            IF ep_net.s2c = <<>> THEN None ELSE Some(Head(ep_net.s2c)), client_cookie)} :
            /\ ep_client' = step.self
            /\ ep_net' = [c2s |-> ep_net.c2s \o step.calls,
                          s2c |-> IF step.polled /\ ep_net.s2c /= <<>> THEN Tail(ep_net.s2c) ELSE ep_net.s2c]
            /\ ep_hist' = [ep_hist EXCEPT
                              !.client_events = @ \o EndpointClientCompleted(step.self, step.ret),
                              !.client_failed = IF step.ret.ok THEN None ELSE Some(step.ret.e)]
    /\ UNCHANGED <<ep_server, proof_vars, id_vars, ctx_vars>>

\* the application ticks the server
EpServerUpdate ==
    /\ IsNone(ep_hist.server_failed)
    /\ \E step \in {EndpointServerUpdate(ep_server, TRUE, ep_net.c2s)} :
           /\ ep_server' = step.self
           /\ ep_net' = [c2s |-> <<>>,
                         s2c |-> IF ep_hist.rogue THEN <<>> ELSE ep_net.s2c \o Responses(step.replies)]
           /\ ep_hist' = [ep_hist EXCEPT
                             !.server_events = @ \o Emitted(step.ret),
                             !.server_failed = IF step.ret.ok THEN None ELSE Some(step.ret.e),
                             !.requests = @ \o ep_net.c2s,
                             !.replies = @ \o step.replies]
    /\ UNCHANGED <<ep_client, proof_vars, id_vars, ctx_vars>>

\* a rogue peer writes a request
EpRogueSend ==
    /\ ep_hist.rogue
    /\ ep_hist.forged < MaxForged
    /\ \E request \in RogueEndpointRequests(ep_server, ep_hist.forged) :
        ep_net' = [ep_net EXCEPT !.c2s = Append(@, request)]
    /\ ep_hist' = [ep_hist EXCEPT !.forged = @ + 1]
    /\ UNCHANGED <<ep_client, ep_server, proof_vars, id_vars, ctx_vars>>

EpNext ==
    \/ EpClientUpdate
    \/ EpServerUpdate
    \/ EpRogueSend

SpecEndpoint == EpInit /\ [][EpNext]_vars

\* the handshakes of endpoint_test: an EndpointClient and an EndpointServer on
\* the two ends of one stream
EpTestInit ==
    /\ EpInit
    /\ ~ep_hist.rogue

EpTestNext ==
    \/ EpClientUpdate
    \/ EpServerUpdate

\* Context::update ticks every registered machine in every call, and the
\* application on either end calls it again and again: neither update() is
\* put off for ever
SpecEndpointFair ==
    /\ EpTestInit
    /\ [][EpTestNext]_vars
    /\ WF_vars(EpClientUpdate)
    /\ WF_vars(EpServerUpdate)


\* the success replies the endpoint server sent to send_response requests
EpSuccessReplies ==
    {i \in 1..Len(ep_hist.replies) :
        ep_hist.replies[i].to = "send_response" /\ ep_hist.replies[i].resp.kind = "Success"}

\* the request was made by the holder of the allowed client's key: it names
\* the allowed client and carries that client's signature over the proof of
\* this handshake
EpSignedByAllowedClient(request) ==
    LET allowed == ep_server.client_identity IN
    /\ request.function = "send_response"
    /\ request.args.client_identity.v = V3OnionServiceIdToString(allowed)
    /\ Ed25519SignatureFromRaw(request.args.client_identity_proof_signature.v) =
        [signer |-> Ed25519PublicFromServiceId(allowed).v,
         msg |-> build_client_proof(GoslingEndpoint, Unwrap(ep_server.requested_channel), allowed,
                                    ep_server.server_identity, request.args.client_cookie.v,
                                    ep_server.server_cookie).v]

\* C5: the endpoint server answers send_response with success and emits
\* HandshakeCompleted only if the identity presented is the allowed client of
\* the listener and the proof signature verifies under that identity; the
\* client_service_id of its HandshakeCompleted event is that allowed client.
C5_SuccessOnlyForAllowedClient ==
    /\ \A i \in EpSuccessReplies :
        \E k \in 1..Len(ep_hist.requests) :
            /\ ep_hist.requests[k].cookie = Some(ep_hist.replies[i].resp.cookie)
            /\ EpSignedByAllowedClient(ep_hist.requests[k])
    /\ \A j \in EventsOf(ep_hist.server_events, "HandshakeCompleted") :
        /\ ep_hist.server_events[j].client_service_id = IdClientId
        /\ EpSuccessReplies /= {}
    /\ ep_server.handshake_succeeded = Some(TRUE) => EpSuccessReplies /= {}

C5_Witness ==
    /\ EpSuccessReplies /= {}
    /\ EventsOf(ep_hist.server_events, "HandshakeCompleted") /= {}

\* the client is an EndpointClient of the allowed client asking for an
\* ASCII channel
EpHonestAllowedAscii ==
    /\ ~ep_hist.rogue
    /\ V3OnionServiceIdFromPrivateKey(ep_client.client_ed25519_private) = ep_server.client_identity
    /\ IsAscii(ep_client.requested_channel)

\* HandshakeCompleted was emitted on both sides with the channel asked for
EpBothCompleted ==
    /\ EventsOf(ep_hist.client_events, "HandshakeCompleted") /= {}
    /\ EventsOf(ep_hist.server_events, "HandshakeCompleted") /= {}
    /\ \A i \in EventsOf(ep_hist.client_events, "HandshakeCompleted") :
       \A j \in EventsOf(ep_hist.server_events, "HandshakeCompleted") :
        /\ ep_hist.client_events[i].channel_name = ep_hist.server_events[j].channel_name
        /\ ep_hist.server_events[j].channel_name = ep_client.requested_channel

\* C6: in every endpoint handshake in which the client's ServiceId is the
\* listener's allowed client and the requested channel name is ASCII, while
\* both sides keep being ticked, HandshakeCompleted is eventually emitted on
\* the client side and on the server side, both with the same channel name.
C6_BothSidesComplete == EpHonestAllowedAscii ~> EpBothCompleted

C6_Witness == EpHonestAllowedAscii /\ EpBothCompleted

\* C7, as stated: once the endpoint server has handled the correctly signed
\* send_response of a client that is not the allowed client and its update()
\* has returned, it has answered with a runtime error and emitted
\* HandshakeRejected with client_allowed = false and
\* client_proof_signature_valid = true.
C7_RejectedEventEmitted ==
    ( /\ ~ep_hist.rogue
      /\ V3OnionServiceIdFromPrivateKey(ep_client.client_ed25519_private) /= ep_server.client_identity
      /\ ep_server.handshake_succeeded = Some(FALSE)
      /\ ep_server.state = "HandshakeComplete" ) =>
        /\ \E i \in 1..Len(ep_hist.replies) :
            ep_hist.replies[i].to = "send_response" /\ ep_hist.replies[i].resp.kind = "Error"
        /\ \E j \in EventsOf(ep_hist.server_events, "HandshakeRejected") :
            /\ ~ep_hist.server_events[j].client_allowed
            /\ ep_hist.server_events[j].client_proof_signature_valid

\* C11, as stated: an honest endpoint client whose requested channel name is
\* not ASCII fails without ever sending an RPC call: no call of it is on the
\* wire and the server has taken none from the wire.
C11_NoCallForNonAsciiName ==
    ( /\ ~ep_hist.rogue
      /\ ~IsAscii(ep_client.requested_channel) ) =>
        /\ ep_net.c2s = <<>>
        /\ ep_hist.requests = <<>>

(***************************************************************************)
(* Spec: the Context.  It owns the four maps of state machines, hands out  *)
(* the handshake handles and ticks every machine in update().  The peer of *)
(* each machine is on the far end of its stream: what it has written by    *)
(* the time of a tick is an input of update().  TorManager connects and    *)
(* listens without failing; its events (BootstrapComplete, a log line) are *)
(* inputs of update().                                                     *)
(***************************************************************************)
\* handshake handles the Context hands out
MaxHandles == 2

\* the identity key given to Context::new, and the remote services
CtxIdentityKey == IdServerKey
CtxRemoteId == V3OnionServiceIdFromPrivateKey(IdRogueKey)
CtxEndpointKey == IdRogueKey

\* a remove that leaves the map as it is
MapRemoveNothing(m, ks) == m

\* BTreeMap::insert, BTreeMap::remove
MapInsert(m, k, v) == [h \in DOMAIN m \cup {k} |-> IF h = k THEN v ELSE m[h]]
MapRemove(m, ks) == [h \in DOMAIN m \ ks |-> m[h]]
EmptyMap == [h \in {} |-> None]

\* Context::new
ContextNew(identity_private_key) ==
    [bootstrap_complete |-> FALSE,
     next_handshake_handle |-> 0,
     identity_clients |-> EmptyMap,
     identity_servers |-> EmptyMap,
     endpoint_clients |-> EmptyMap,
     endpoint_servers |-> EmptyMap,
     identity_listener |-> FALSE,
     endpoint_listeners |-> EmptyMap,
     identity_private_key |-> identity_private_key,
     identity_service_id |-> V3OnionServiceIdFromPrivateKey(identity_private_key)]

\* what a remote identity server may have answered by the time of a tick
IdentityPeerResponses(self) ==
    IF self.state = "WaitingForChallenge" THEN
        {ResponseSuccess(Unwrap(self.begin_handshake_request_cookie),
                         ResultDocument(BsonBinary(Repeat(0, SERVER_COOKIE_SIZE)), BsonDocument(<<1>>))),
         ResponseError(Unwrap(self.begin_handshake_request_cookie), Failure)}
    ELSE IF self.state = "WaitingForChallengeVerification" THEN
        {ResponseSuccess(Unwrap(self.send_response_request_cookie),
                         BsonString(V3OnionServiceIdToString(CtxRemoteId))),
         ResponseError(Unwrap(self.send_response_request_cookie), Failure)}
    ELSE {}

\* what a remote identity client may have written: the request the protocol
\* asks for next, or a send_response signed with another key
IdentityPeerRequests(self) ==
    LET zero == Repeat(0, CLIENT_COOKIE_SIZE) IN
    IF self.state = "WaitingForBeginHandshake" THEN
        {Request("begin_handshake", 0, Some(0),
                 [version |-> BsonString(GOSLING_VERSION),
                  client_identity |-> BsonString(IdClientId),
                  endpoint |-> BsonString(<<101>>)])}
    ELSE IF self.state = "WaitingForSendResponse" THEN
        {Request("send_response", 0, Some(1), ForgedSendResponseArgs(self, IdClientKey, zero, zero, 1)),
         Request("send_response", 0, Some(1), ForgedSendResponseArgs(self, IdRogueKey, zero, zero, 1))}
    ELSE {}

\* what a remote endpoint server may have answered
EndpointPeerResponses(self) ==
    IF self.state = "WaitingForServerCookie" THEN
        {ResponseSuccess(Unwrap(self.begin_handshake_request_cookie),
                         ResultDocument(BsonBinary(Repeat(0, SERVER_COOKIE_SIZE)), BsonMissing)),
         ResponseError(Unwrap(self.begin_handshake_request_cookie), BadVersion)}
    ELSE IF self.state = "WaitingForProofVerification" THEN
        {ResponseSuccess(Unwrap(self.send_response_request_cookie), ResultDocument(BsonMissing, BsonMissing)),
         ResponseError(Unwrap(self.send_response_request_cookie), Failure)}
    ELSE {}

\* what a remote endpoint client holding IdClientKey may have written
EndpointPeerRequests(self) ==
    IF self.state = "WaitingForBeginHandshake" THEN
        {Request("begin_handshake", 0, Some(0),
                 [version |-> BsonString(GOSLING_VERSION), channel |-> BsonString(<<99>>)])}
    ELSE IF self.state = "WaitingForSendResponse" THEN
        {Request("send_response", 0, Some(1),
                 ForgedEndpointResponseArgs(self, IdClientId, IdClientKey, Repeat(0, CLIENT_COOKIE_SIZE)))}
    ELSE {}

\* the inputs of one tick: whether the stream still works, what the peer
\* has written, whether TcpStream::try_clone succeeds
TickInput(rpc_ok, msg, clone_ok) == [rpc_ok |-> rpc_ok, msg |-> msg, clone_ok |-> clone_ok]

ClientTickInputs(responses) ==
    {TickInput(FALSE, None, TRUE), TickInput(TRUE, None, TRUE)}
        \cup {TickInput(TRUE, Some(r), TRUE) : r \in responses}

ServerTickInputs(requests, clones) ==
    {TickInput(FALSE, <<>>, TRUE)}
        \cup {TickInput(TRUE, <<>>, clone_ok) : clone_ok \in clones}
        \cup {TickInput(TRUE, <<r>>, clone_ok) : r \in requests, clone_ok \in clones}

\* what one arm of the match in Context::update decides for a machine:
\* the events pushed, whether it is removed; err: its update() returned Err;
\* terminal: a completed, rejected or failed event was pushed for it
Tick(fsm, events, remove, err, terminal) ==
    [fsm |-> fsm, events |-> events, remove |-> remove, err |-> err, terminal |-> terminal]

\* Context::update, the arms for an identity client; step is what its
\* update() did
ContextTickIdentityClient(handle, step) ==
    IF ~step.ret.ok THEN
        Tick(step.self, <<[type |-> "IdentityClientHandshakeFailed", handle |-> handle, reason |-> step.ret.e]>>,
             TRUE, TRUE, 1)
    ELSE IF IsNone(step.ret.v) THEN Tick(step.self, <<>>, FALSE, FALSE, 0)
    ELSE LET e == Unwrap(step.ret.v) IN
    IF e.type = "ChallengeReceived" THEN
        Tick(step.self, <<[type |-> "IdentityClientChallengeReceived", handle |-> handle,
                           identity_service_id |-> e.identity_service_id,
                           endpoint_name |-> e.endpoint_name,
                           endpoint_challenge |-> e.endpoint_challenge]>>, FALSE, FALSE, 0)
    ELSE Tick(step.self, <<[type |-> "IdentityClientHandshakeCompleted", handle |-> handle,
                            identity_service_id |-> e.identity_service_id,
                            endpoint_service_id |-> e.endpoint_service_id,
                            endpoint_name |-> e.endpoint_name,
                            client_auth_private_key |-> e.client_auth_private_key]>>, TRUE, FALSE, 1)

\* Context::update, the arms for an identity server: a rejected handshake
\* is printed and the machine removed
ContextTickIdentityServer(handle, step) ==
    IF ~step.ret.ok THEN
        Tick(step.self, <<[type |-> "IdentityServerHandshakeFailed", handle |-> handle, reason |-> step.ret.e]>>,
             TRUE, TRUE, 1)
    ELSE IF IsNone(step.ret.v) THEN Tick(step.self, <<>>, FALSE, FALSE, 0)
    ELSE LET e == Unwrap(step.ret.v) IN
    IF e.type = "EndpointRequestReceived" THEN
        Tick(step.self, <<[type |-> "IdentityServerEndpointRequestReceived", handle |-> handle,
                           client_service_id |-> e.client_service_id,
                           requested_endpoint |-> e.requested_endpoint]>>, FALSE, FALSE, 0)
    ELSE IF e.type = "ChallengeResponseReceived" THEN
        Tick(step.self, <<[type |-> "IdentityServerChallengeResponseReceived", handle |-> handle,
                           challenge_response |-> e.challenge_response]>>, FALSE, FALSE, 0)
    ELSE IF e.type = "HandshakeCompleted" THEN
        Tick(step.self, <<[type |-> "IdentityServerHandshakeCompleted", handle |-> handle,
                           endpoint_private_key |-> e.endpoint_private_key,
                           endpoint_name |-> e.endpoint_name,
                           client_service_id |-> e.client_service_id,
                           client_auth_public_key |-> e.client_auth_public_key]>>, TRUE, FALSE, 1)
    ELSE Tick(step.self, <<>>, TRUE, FALSE, 0)

\* Context::update, the arms for an endpoint client: an error is printed
\* and the machine removed
ContextTickEndpointClient(handle, step) ==
    IF ~step.ret.ok THEN Tick(step.self, <<>>, TRUE, TRUE, 0)
    ELSE IF IsNone(step.ret.v) THEN Tick(step.self, <<>>, FALSE, FALSE, 0)
    ELSE Tick(step.self, <<[type |-> "EndpointClientHandshakeCompleted",
                            endpoint_service_id |-> step.self.server_service_id,
                            channel_name |-> step.self.requested_channel]>>, TRUE, FALSE, 1)

\* Context::update, the arms for an endpoint server: the completed event is
\* pushed only if the stream could be cloned; an error removes the machine
ContextTickEndpointServer(handle, step, clone_ok) ==
    IF ~step.ret.ok THEN Tick(step.self, <<>>, TRUE, TRUE, 0)
    ELSE IF IsNone(step.ret.v) THEN Tick(step.self, <<>>, FALSE, FALSE, 0)
    ELSE LET e == Unwrap(step.ret.v) IN
    IF e.type = "ChannelRequestReceived" THEN
        Tick(step.self, <<[type |-> "EndpointServerChannelRequestReceived", handle |-> handle,
                           endpoint_service_id |-> step.self.server_identity,
                           requested_channel |-> e.requested_channel]>>, FALSE, FALSE, 0)
    ELSE IF e.type = "HandshakeCompleted" THEN
        IF clone_ok THEN
            Tick(step.self, <<[type |-> "EndpointServerHandshakeCompleted", handle |-> handle,
                               endpoint_service_id |-> step.self.server_identity,
                               client_service_id |-> e.client_service_id,
                               channel_name |-> e.channel_name]>>, TRUE, FALSE, 1)
        ELSE Tick(step.self, <<>>, TRUE, FALSE, 0)
    ELSE Tick(step.self, <<[type |-> "EndpointServerHandshakeRejected", handle |-> handle,
                            client_allowed |-> e.client_allowed,
                            client_requested_channel_valid |-> e.client_requested_channel_valid,
                            client_proof_signature_valid |-> e.client_proof_signature_valid]>>, TRUE, FALSE, 1)

\* the machines registered in the four maps
ContextHandles(self) ==
    DOMAIN self.identity_clients \cup DOMAIN self.identity_servers
        \cup DOMAIN self.endpoint_clients \cup DOMAIN self.endpoint_servers

\* the inputs the machine with this handle may be ticked with
ContextTickInputs(self, handle) ==
    IF handle \in DOMAIN self.identity_clients
        THEN ClientTickInputs(IdentityPeerResponses(self.identity_clients[handle]))
    ELSE IF handle \in DOMAIN self.identity_servers
        THEN ServerTickInputs(IdentityPeerRequests(self.identity_servers[handle]), {TRUE})
    ELSE IF handle \in DOMAIN self.endpoint_clients
        THEN ClientTickInputs(EndpointPeerResponses(self.endpoint_clients[handle]))
    ELSE ServerTickInputs(EndpointPeerRequests(self.endpoint_servers[handle]),
                          IF self.endpoint_servers[handle].state = "WaitingForSendResponse"
                          THEN BOOLEAN ELSE {TRUE})

\* an accept that registers the machines and leaves next_handshake_handle
\* as it is
ContextAcceptNoIncrement(self, accept_identity, accept_endpoint) ==
    LET first == self.next_handshake_handle
        with_identity ==
            IF accept_identity
            THEN [self EXCEPT !.identity_servers = MapInsert(@, first, IdentityServerNew(self.identity_service_id))]
            ELSE self
    IN  IF accept_endpoint = {} THEN with_identity
        ELSE LET endpoint_service_id == CHOOSE id \in accept_endpoint : TRUE
                 allowed_client == self.endpoint_listeners[endpoint_service_id].allowed_client
             IN [with_identity EXCEPT
                    !.endpoint_servers = MapInsert(@, first,
                        EndpointServerNew(allowed_client, endpoint_service_id, Repeat(0, SERVER_COOKIE_SIZE)))]

\* Context::update, the connections accepted: accept_identity: the identity
\* listener has one; accept_endpoint: the endpoint listeners that have one
\* (at most one); server_cookie is what OsRng fills in
ContextAccept(self, accept_identity, accept_endpoint) ==
    LET first == self.next_handshake_handle
        with_identity ==
            IF accept_identity
            THEN [self EXCEPT !.identity_servers = MapInsert(@, first, IdentityServerNew(self.identity_service_id)),
                              !.next_handshake_handle = first + 1]
            ELSE self
        next == with_identity.next_handshake_handle
    IN  IF accept_endpoint = {} THEN with_identity
        ELSE LET endpoint_service_id == CHOOSE id \in accept_endpoint : TRUE
                 allowed_client == self.endpoint_listeners[endpoint_service_id].allowed_client
             IN [with_identity EXCEPT
                    !.endpoint_servers = MapInsert(@, next,
                        EndpointServerNew(allowed_client, endpoint_service_id, Repeat(0, SERVER_COOKIE_SIZE))),
                    !.next_handshake_handle = next + 1]

RECURSIVE TickEventsDescending(_, _)
\* the events of the ticks of one map, the largest handle first
TickEventsDescending(ticks, handle) ==
    IF handle >= MaxHandles THEN <<>>
    ELSE TickEventsDescending(ticks, handle + 1) \o (IF handle \in DOMAIN ticks THEN ticks[handle].events ELSE <<>>)

RECURSIVE TickEvents(_, _)
\* the events of the ticks of one map, in the order of the handles
TickEvents(ticks, handle) ==
    IF handle >= MaxHandles THEN <<>>
    ELSE (IF handle \in DOMAIN ticks THEN ticks[handle].events ELSE <<>>) \o TickEvents(ticks, handle + 1)

\* the map after its ticks
TickKept(ticks) == [h \in {k \in DOMAIN ticks : ~ticks[k].remove} |-> ticks[h].fsm]

\* Context::update, the ticks of the four maps; ins: the input of every
\* tick; the cookies and keys are what OsRng fills in
ContextTicks(accepted, ins) ==
    [identity_clients |->
        [h \in DOMAIN accepted.identity_clients |->
            ContextTickIdentityClient(h, IdentityClientUpdate(accepted.identity_clients[h],
                ins[h].rpc_ok, ins[h].msg, Repeat(0, CLIENT_COOKIE_SIZE)))],
     identity_servers |->
        [h \in DOMAIN accepted.identity_servers |->
            ContextTickIdentityServer(h, IdentityServerUpdate(accepted.identity_servers[h],
                ins[h].rpc_ok, ins[h].msg, CtxEndpointKey))],
     endpoint_clients |->
        [h \in DOMAIN accepted.endpoint_clients |->
            ContextTickEndpointClient(h, EndpointClientUpdate(accepted.endpoint_clients[h],
                ins[h].rpc_ok, ins[h].msg, Repeat(0, CLIENT_COOKIE_SIZE)))],
     endpoint_servers |->
        [h \in DOMAIN accepted.endpoint_servers |->
            ContextTickEndpointServer(h, EndpointServerUpdate(accepted.endpoint_servers[h],
                ins[h].rpc_ok, ins[h].msg), ins[h].clone_ok)]]

\* Context::update after the connections are accepted.  tor_events: what
\* TorManager::update returns; ticks: what the ticks decided
ContextUpdate(accepted, tor_events, ticks) ==
    [self |-> [accepted EXCEPT
                    !.bootstrap_complete = @ \/ \E i \in 1..Len(tor_events) : tor_events[i].type = "TorBootstrapCompleted",
                    !.identity_clients = TickKept(ticks.identity_clients),
                    !.identity_servers = TickKept(ticks.identity_servers),
                    !.endpoint_clients = TickKept(ticks.endpoint_clients),
                    !.endpoint_servers = TickKept(ticks.endpoint_servers)],
     events |-> tor_events \o TickEvents(ticks.identity_clients, 0) \o TickEvents(ticks.identity_servers, 0)
                    \o TickEvents(ticks.endpoint_clients, 0) \o TickEvents(ticks.endpoint_servers, 0),
     ticks |-> [h \in ContextHandles(accepted) |->
                    IF h \in DOMAIN ticks.identity_clients THEN ticks.identity_clients[h]
                    ELSE IF h \in DOMAIN ticks.identity_servers THEN ticks.identity_servers[h]
                    ELSE IF h \in DOMAIN ticks.endpoint_clients THEN ticks.endpoint_clients[h]
                    ELSE ticks.endpoint_servers[h]]]

\* a Context whose methods do not look at bootstrap_complete
ContextBootstrapNotChecked(self) == TRUE

\* ensure!(self.bootstrap_complete), the first line of the methods that use
\* the transport
ContextBootstrapComplete(self) == self.bootstrap_complete

\* an identity_server_start that does not look for an existing listener
ContextIdentityListenerNotChecked(self) == TRUE

\* ensure!(self.identity_listener.is_none()) of identity_server_start
ContextIdentityListenerIsNone(self) == ~self.identity_listener

\* a map that finds a machine under every handle
ContextFindAny(map, handle) == TRUE

\* whether BTreeMap::get_mut / remove finds the handle (the Some arm of the
\* `if let` of the submissions and aborts)
ContextFind(map, handle) == handle \in DOMAIN map

\* an identity_server_stop that drops the listener and keeps the machines
ContextIdentityServerStopListenerOnly(self) == [self EXCEPT !.identity_listener = FALSE]

\* what identity_server_stop does once its ensure! has passed: the listener
\* and the identity handshakes in progress are dropped
ContextIdentityServerStop(self) ==
    [self EXCEPT !.identity_listener = FALSE, !.identity_servers = EmptyMap]

\* an endpoint_server_stop that also drops the endpoint handshakes in progress
ContextEndpointServerStopWithHandshakes(self, endpoint_identity) ==
    [self EXCEPT !.endpoint_listeners = MapRemove(@, {endpoint_identity}), !.endpoint_servers = EmptyMap]

\* what endpoint_server_stop does once the listener is found:
\* self.endpoint_listeners.remove(&endpoint_identity)
ContextEndpointServerStop(self, endpoint_identity) ==
    [self EXCEPT !.endpoint_listeners = MapRemove(@, {endpoint_identity})]

\* the public methods of Context other than update(): call.op names the
\* method, the other fields of call are its arguments; the result is the
\* Context after the call and the Result the method returns.  TorManager
\* connects and listens without failing.
ContextCall(self, call) ==
    CASE call.op = "identity_client_begin_handshake" ->
            IF ~ContextBootstrapComplete(self) THEN [self |-> self, ret |-> Err("ensure")]
            ELSE [self |-> [self EXCEPT
                               !.identity_clients = MapInsert(@, self.next_handshake_handle,
                                    IdentityClientNew(call.identity_server_id, call.endpoint,
                                                      self.identity_private_key, call.client_x25519_private)),
                               !.next_handshake_handle = @ + 1],
                  ret |-> Ok(self.next_handshake_handle)]
      [] call.op = "identity_client_abort_identity_handshake" ->
            IF ContextFind(self.identity_clients, call.handle)
            THEN [self |-> [self EXCEPT !.identity_clients = MapRemove(@, {call.handle})], ret |-> Ok(None)]
            ELSE [self |-> self, ret |-> Err("not found")]
      [] call.op = "identity_client_handle_challenge_received" ->
            IF ContextFind(self.identity_clients, call.handle)
            THEN LET sent == IdentityClientSendResponse(self.identity_clients[call.handle], call.challenge_response)
                 IN  [self |-> [self EXCEPT !.identity_clients[call.handle] = sent.self], ret |-> sent.ret]
            ELSE [self |-> self, ret |-> Err("no handshake")]
      [] call.op = "identity_server_start" ->
            IF ~ContextBootstrapComplete(self) THEN [self |-> self, ret |-> Err("ensure")]
            ELSE IF ~ContextIdentityListenerIsNone(self) THEN [self |-> self, ret |-> Err("ensure")]
            ELSE [self |-> [self EXCEPT !.identity_listener = TRUE], ret |-> Ok(None)]
      [] call.op = "identity_server_stop" ->
            IF ~ContextBootstrapComplete(self) THEN [self |-> self, ret |-> Err("ensure")]
            ELSE [self |-> ContextIdentityServerStop(self), ret |-> Ok(None)]
      [] call.op = "identity_server_handle_endpoint_request_received" ->
            IF ContextFind(self.identity_servers, call.handle)
            THEN LET sent == IdentityServerSendChallenge(self.identity_servers[call.handle], call.client_allowed,
                                    call.endpoint_supported, call.endpoint_challenge, call.server_cookie)
                 IN  [self |-> [self EXCEPT !.identity_servers[call.handle] = sent.self], ret |-> sent.ret]
            ELSE [self |-> self, ret |-> Err("no handshake")]
      [] call.op = "identity_server_handle_challenge_response_received" ->
            IF ContextFind(self.identity_servers, call.handle)
            THEN LET sent == IdentityServerSendChallengeVerification(self.identity_servers[call.handle],
                                    call.challenge_response_valid)
                 IN  [self |-> [self EXCEPT !.identity_servers[call.handle] = sent.self], ret |-> sent.ret]
            ELSE [self |-> self, ret |-> Err("no handshake")]
      [] call.op = "endpoint_client_begin_handshake" ->
            IF ~ContextBootstrapComplete(self) THEN [self |-> self, ret |-> Err("ensure")]
            ELSE [self |-> [self EXCEPT
                               !.endpoint_clients = MapInsert(@, self.next_handshake_handle,
                                    EndpointClientNew(call.endpoint_server_id, call.channel,
                                                      self.identity_private_key)),
                               !.next_handshake_handle = @ + 1],
                  ret |-> Ok(None)]
      [] call.op = "endpoint_client_abort_handshake" ->
            IF ContextFind(self.endpoint_clients, call.handle)
            THEN [self |-> [self EXCEPT !.endpoint_clients = MapRemove(@, {call.handle})], ret |-> Ok(None)]
            ELSE [self |-> self, ret |-> Err("not found")]
      [] call.op = "endpoint_server_start" ->
            IF ~ContextBootstrapComplete(self) THEN [self |-> self, ret |-> Err("ensure")]
            ELSE LET endpoint_public_key == Ed25519PublicFromPrivate(call.endpoint_private_key)
                     endpoint_service_id == V3OnionServiceIdFromPublicKey(endpoint_public_key)
                 IN  [self |-> [self EXCEPT !.endpoint_listeners = MapInsert(@, endpoint_service_id,
                                    [endpoint_name |-> call.endpoint_name,
                                     allowed_client |-> call.client_identity])],
                      ret |-> Ok(None)]
      [] call.op = "endpoint_server_handle_channel_request_received" ->
            [self |-> self, ret |-> Err("not implemented")]
      [] call.op = "endpoint_server_stop" ->
            IF ~ContextBootstrapComplete(self) THEN [self |-> self, ret |-> Err("ensure")]
            ELSE IF ContextFind(self.endpoint_listeners, call.endpoint_identity)
            THEN [self |-> ContextEndpointServerStop(self, call.endpoint_identity), ret |-> Ok(None)]
            ELSE [self |-> self, ret |-> Err("not found")]

\* what is remembered of the calls.  Of the last update(): the events it
\* returned, the machines registered when it ticked, those it ticked, those
\* whose update() returned Err, those it removed, those it returned a
\* terminal event for and those it left in the maps.  Of all updates: the
\* handles retired and the terminal events returned per handle.  Of the
\* other methods: the handles aborted (awaited: while the machine waited for
\* a reply of its peer), those discarded by identity_server_stop, those of
\* these that an update() has run after (outlived), and those a submission
\* has failed for while they were registered (misused).
CtxInit ==
    /\ ctx = ContextNew(CtxIdentityKey)
    /\ ctx_hist = [last |-> [events |-> <<>>, registered |-> {}, ticked |-> {}, errored |-> {},
                             removed |-> {}, terminal |-> {}, kept |-> {}],
                   retired |-> {},
                   terminal |-> [h \in 0..(MaxHandles - 1) |-> 0],
                   aborted |-> {}, awaited |-> {}, stopped |-> {}, outlived |-> {}, misused |-> {}]
    /\ ProofIdle /\ IdIdle /\ EpIdle

\* the states in which a client machine waits for a reply of its peer
ClientAwaitsReply(fsm) ==
    fsm.state \in {"WaitingForChallenge", "WaitingForChallengeVerification",
                   "WaitingForServerCookie", "WaitingForProofVerification"}

\* Context::identity_client_begin_handshake
CtxIdentityClientBeginHandshake ==
    /\ ctx.next_handshake_handle < MaxHandles
    /\ \E identity_server_id \in {CtxRemoteId}, endpoint \in {<<101>>}, client_x25519_private \in {1} :
       \E call \in {ContextCall(ctx, [op |-> "identity_client_begin_handshake",
                                      identity_server_id |-> identity_server_id, endpoint |-> endpoint,
                                      client_x25519_private |-> client_x25519_private])} :
        /\ call.ret.ok
        /\ ctx' = call.self
    /\ UNCHANGED <<ctx_hist, proof_vars, id_vars, ep_vars>>

\* Context::identity_client_abort_identity_handshake
CtxIdentityClientAbort ==
    /\ \E handle \in DOMAIN ctx.identity_clients :
       \E call \in {ContextCall(ctx, [op |-> "identity_client_abort_identity_handshake", handle |-> handle])} :
        /\ call.ret.ok
        /\ ctx' = call.self
        /\ ctx_hist' = [ctx_hist EXCEPT
                           !.aborted = @ \cup {handle},
                           !.awaited = @ \cup (IF ClientAwaitsReply(ctx.identity_clients[handle])
                                               THEN {handle} ELSE {})]
    /\ UNCHANGED <<proof_vars, id_vars, ep_vars>>

\* Context::identity_client_handle_challenge_received
CtxIdentityClientHandleChallengeReceived ==
    /\ \E handle \in DOMAIN ctx.identity_clients, challenge_response \in IdChallengeResponses :
       \E call \in {ContextCall(ctx, [op |-> "identity_client_handle_challenge_received", handle |-> handle,
                                      challenge_response |-> challenge_response])} :
        /\ call.ret.ok
        /\ ctx' = call.self
    /\ UNCHANGED <<ctx_hist, proof_vars, id_vars, ep_vars>>

\* Context::identity_server_start
CtxIdentityServerStart ==
    /\ \E call \in {ContextCall(ctx, [op |-> "identity_server_start"])} :
        /\ call.ret.ok
        /\ ctx' = call.self
    /\ UNCHANGED <<ctx_hist, proof_vars, id_vars, ep_vars>>

\* Context::identity_server_stop
CtxIdentityServerStop ==
    /\ \E call \in {ContextCall(ctx, [op |-> "identity_server_stop"])} :
        /\ call.ret.ok
        /\ ctx' = call.self
        /\ ctx_hist' = [ctx_hist EXCEPT !.stopped = @ \cup DOMAIN ctx.identity_servers]
    /\ UNCHANGED <<proof_vars, id_vars, ep_vars>>

\* Context::identity_server_handle_endpoint_request_received
CtxIdentityServerHandleEndpointRequestReceived ==
    /\ \E handle \in DOMAIN ctx.identity_servers :
       \E client_allowed \in BOOLEAN, endpoint_supported \in BOOLEAN, endpoint_challenge \in IdChallenges :
       \E call \in {ContextCall(ctx, [op |-> "identity_server_handle_endpoint_request_received",
                                      handle |-> handle, client_allowed |-> client_allowed,
                                      endpoint_supported |-> endpoint_supported,
                                      endpoint_challenge |-> endpoint_challenge,
                                      server_cookie |-> Repeat(0, SERVER_COOKIE_SIZE)])} :
        /\ call.ret.ok
        /\ ctx' = call.self
    /\ UNCHANGED <<ctx_hist, proof_vars, id_vars, ep_vars>>

\* Context::identity_server_handle_challenge_response_received
CtxIdentityServerHandleChallengeResponseReceived ==
    /\ \E handle \in DOMAIN ctx.identity_servers, challenge_response_valid \in BOOLEAN :
       \E call \in {ContextCall(ctx, [op |-> "identity_server_handle_challenge_response_received",
                                      handle |-> handle,
                                      challenge_response_valid |-> challenge_response_valid])} :
        /\ call.ret.ok
        /\ ctx' = call.self
    /\ UNCHANGED <<ctx_hist, proof_vars, id_vars, ep_vars>>

\* Context::endpoint_client_begin_handshake
CtxEndpointClientBeginHandshake ==
    /\ ctx.next_handshake_handle < MaxHandles
    /\ \E endpoint_server_id \in {CtxRemoteId}, channel \in {<<99>>} :
       \E call \in {ContextCall(ctx, [op |-> "endpoint_client_begin_handshake",
                                      endpoint_server_id |-> endpoint_server_id, channel |-> channel])} :
        /\ call.ret.ok
        /\ ctx' = call.self
    /\ UNCHANGED <<ctx_hist, proof_vars, id_vars, ep_vars>>

\* Context::endpoint_client_abort_handshake
CtxEndpointClientAbort ==
    /\ \E handle \in DOMAIN ctx.endpoint_clients :
       \E call \in {ContextCall(ctx, [op |-> "endpoint_client_abort_handshake", handle |-> handle])} :
        /\ call.ret.ok
        /\ ctx' = call.self
        /\ ctx_hist' = [ctx_hist EXCEPT
                           !.aborted = @ \cup {handle},
                           !.awaited = @ \cup (IF ClientAwaitsReply(ctx.endpoint_clients[handle])
                                               THEN {handle} ELSE {})]
    /\ UNCHANGED <<proof_vars, id_vars, ep_vars>>

\* Context::endpoint_server_start
CtxEndpointServerStart ==
    /\ \E endpoint_private_key \in {CtxEndpointKey}, endpoint_name \in {<<101>>} :
       \E client_identity \in {IdClientId, CtxRemoteId} :
       \E call \in {ContextCall(ctx, [op |-> "endpoint_server_start",
                                      endpoint_private_key |-> endpoint_private_key,
                                      endpoint_name |-> endpoint_name,
                                      client_identity |-> client_identity])} :
        /\ call.ret.ok
        /\ ctx' = call.self
    /\ UNCHANGED <<ctx_hist, proof_vars, id_vars, ep_vars>>

\* Context::endpoint_server_stop
CtxEndpointServerStop ==
    /\ \E endpoint_identity \in DOMAIN ctx.endpoint_listeners :
       \E call \in {ContextCall(ctx, [op |-> "endpoint_server_stop", endpoint_identity |-> endpoint_identity])} :
        /\ call.ret.ok
        /\ ctx' = call.self
    /\ UNCHANGED <<ctx_hist, proof_vars, id_vars, ep_vars>>

\* Context::update, called by the application; a panic of a machine ends
\* the program
CtxUpdate ==
    /\ \E accept_identity \in BOOLEAN :
       \E accept_endpoint \in {s \in SUBSET DOMAIN ctx.endpoint_listeners : Cardinality(s) <= 1} :
        /\ accept_identity => ctx.identity_listener
        /\ ctx.next_handshake_handle + (IF accept_identity THEN 1 ELSE 0) + Cardinality(accept_endpoint) <= MaxHandles
        /\ \E accepted \in {ContextAccept(ctx, accept_identity, accept_endpoint)} :
           \E ins \in {f \in [ContextHandles(accepted) ->
                                UNION {ContextTickInputs(accepted, h) : h \in ContextHandles(accepted)}] :
                            \A h \in ContextHandles(accepted) : f[h] \in ContextTickInputs(accepted, h)} :
           \E ticks \in {ContextTicks(accepted, ins)} :
           \E tor_events \in {<<>>, <<[type |-> "TorBootstrapCompleted"]>>, <<[type |-> "TorLogReceived"]>>} :
           \E u \in {ContextUpdate(accepted, tor_events, ticks)} :
                /\ tor_events = <<[type |-> "TorBootstrapCompleted"]>> => ~ctx.bootstrap_complete
                /\ \A i \in 1..Len(u.events) :
                    u.events[i].type = "IdentityServerHandshakeFailed" => u.events[i].reason /= "panic"
                /\ ctx' = u.self
                /\ ctx_hist' =
                    [last |-> [events |-> u.events,
                               registered |-> ContextHandles(accepted),
                               kept |-> ContextHandles(u.self),
                               ticked |-> DOMAIN u.ticks,
                               errored |-> {h \in DOMAIN u.ticks : u.ticks[h].err},
                               removed |-> {h \in DOMAIN u.ticks : u.ticks[h].remove},
                               terminal |-> {h \in DOMAIN u.ticks : u.ticks[h].terminal = 1}],
                     retired |-> ctx_hist.retired \cup {h \in DOMAIN u.ticks : u.ticks[h].remove},
                     terminal |-> [h \in DOMAIN ctx_hist.terminal |->
                                    ctx_hist.terminal[h] + (IF h \in DOMAIN u.ticks THEN u.ticks[h].terminal ELSE 0)],
                     aborted |-> ctx_hist.aborted,
                     awaited |-> ctx_hist.awaited,
                     stopped |-> ctx_hist.stopped,
                     outlived |-> ctx_hist.aborted \cup ctx_hist.stopped,
                     misused |-> ctx_hist.misused]
    /\ UNCHANGED <<proof_vars, id_vars, ep_vars>>

Next ==
    \/ CtxIdentityClientBeginHandshake
    \/ CtxIdentityClientAbort
    \/ CtxIdentityClientHandleChallengeReceived
    \/ CtxIdentityServerStart
    \/ CtxIdentityServerStop
    \/ CtxIdentityServerHandleEndpointRequestReceived
    \/ CtxIdentityServerHandleChallengeResponseReceived
    \/ CtxEndpointClientBeginHandshake
    \/ CtxEndpointClientAbort
    \/ CtxEndpointServerStart
    \/ CtxEndpointServerStop
    \/ CtxUpdate

Spec == CtxInit /\ [][Next]_vars

\* the submissions the application can make for a handle
ContextSubmissions(handle) ==
    {[op |-> "identity_client_handle_challenge_received", handle |-> handle,
      challenge_response |-> challenge_response] : challenge_response \in IdChallengeResponses}
    \cup {[op |-> "identity_server_handle_endpoint_request_received", handle |-> handle,
           client_allowed |-> client_allowed, endpoint_supported |-> TRUE,
           endpoint_challenge |-> endpoint_challenge,
           server_cookie |-> Repeat(0, SERVER_COOKIE_SIZE)] :
                client_allowed \in BOOLEAN, endpoint_challenge \in IdChallenges}
    \cup {[op |-> "identity_server_handle_challenge_response_received", handle |-> handle,
           challenge_response_valid |-> challenge_response_valid] : challenge_response_valid \in BOOLEAN}

\* a submission for a registered handshake that the Context refuses
CtxFailedSubmission ==
    /\ \E handle \in DOMAIN ctx.identity_clients \cup DOMAIN ctx.identity_servers :
       \E submission \in ContextSubmissions(handle) :
       \E call \in {ContextCall(ctx, submission)} :
        /\ submission.op = "identity_client_handle_challenge_received" <=> handle \in DOMAIN ctx.identity_clients
        /\ ~call.ret.ok
        /\ ctx' = call.self
        /\ ctx_hist' = [ctx_hist EXCEPT !.misused = @ \cup {handle}]
    /\ UNCHANGED <<proof_vars, id_vars, ep_vars>>

\* the identity handshakes of a Context whose application also makes
\* submissions out of turn
SubmitNext ==
    \/ CtxIdentityClientBeginHandshake
    \/ CtxIdentityClientHandleChallengeReceived
    \/ CtxIdentityServerStart
    \/ CtxIdentityServerHandleEndpointRequestReceived
    \/ CtxIdentityServerHandleChallengeResponseReceived
    \/ CtxFailedSubmission
    \/ CtxUpdate

SpecSubmit == CtxInit /\ [][SubmitNext]_vars

\* C8: for every handshake handle that Context::update retires from one of
\* its four maps, the events update() returned over the life of the handle
\* hold exactly one terminal event for it (completed, rejected or failed),
\* and the update() call that removes the machine is the one that returns it.
C8_OneTerminalEventPerRetiredHandle ==
    /\ \A h \in ctx_hist.retired : ctx_hist.terminal[h] = 1
    /\ ctx_hist.last.removed = ctx_hist.last.terminal

\* the events that report a failed handshake
HandshakeFailedEvents ==
    {"IdentityClientHandshakeFailed", "IdentityServerHandshakeFailed",
     "EndointClientHandshakeFailed", "EndpointServerRequestFailed"}

\* C9: when the update() of a machine returns an error inside
\* Context::update, a HandshakeFailed event with the handle of that machine
\* is returned and the machine is removed, while every other registered
\* machine is ticked in the same call and stays in its map.
C9_FailedEventForEveryError ==
    \A h \in ctx_hist.last.errored :
        /\ \E i \in 1..Len(ctx_hist.last.events) :
            /\ ctx_hist.last.events[i].type \in HandshakeFailedEvents
            /\ ctx_hist.last.events[i].handle = h
        /\ h \in ctx_hist.last.removed
        /\ ctx_hist.last.ticked = ctx_hist.last.registered
        /\ ctx_hist.last.kept = ctx_hist.last.registered \ ctx_hist.last.removed

\* the calls that need the transport, with arguments the application may give
ContextTransportCalls ==
    {[op |-> "identity_client_begin_handshake", identity_server_id |-> CtxRemoteId, endpoint |-> <<101>>,
      client_x25519_private |-> 1],
     [op |-> "endpoint_client_begin_handshake", endpoint_server_id |-> CtxRemoteId, channel |-> <<99>>],
     [op |-> "identity_server_start"],
     [op |-> "endpoint_server_start", endpoint_private_key |-> CtxEndpointKey, endpoint_name |-> <<101>>,
      client_identity |-> IdClientId]}

\* C12: until update() has seen the transport's bootstrap-complete event,
\* identity_client_begin_handshake, endpoint_client_begin_handshake,
\* identity_server_start and endpoint_server_start return an error and leave
\* the Context as it was (no handle allocated, no machine or listener
\* registered); once it has, each of them succeeds (identity_server_start
\* when no identity listener exists).
C12_CallsFailBeforeBootstrap ==
    \A args \in ContextTransportCalls :
        LET call == ContextCall(ctx, args)
        IN  /\ ~ctx.bootstrap_complete => (~call.ret.ok /\ call.self = ctx)
            /\ (ctx.bootstrap_complete /\ (args.op = "identity_server_start" => ~ctx.identity_listener)) =>
                    call.ret.ok

\* a Context that has not seen the bootstrap-complete event refuses the four
\* calls
C12_Witness ==
    /\ ~ctx.bootstrap_complete
    /\ \A args \in ContextTransportCalls : ~ContextCall(ctx, args).ret.ok

\* the aborts the application can make for a handle
ContextAborts(handle) ==
    {[op |-> "identity_client_abort_identity_handshake", handle |-> handle],
     [op |-> "endpoint_client_abort_handshake", handle |-> handle]}

\* the map a submission or abort looks its handle up in
ContextMapOf(self, op) ==
    CASE op \in {"identity_client_abort_identity_handshake",
                 "identity_client_handle_challenge_received"} -> self.identity_clients
      [] op \in {"identity_server_handle_endpoint_request_received",
                 "identity_server_handle_challenge_response_received"} -> self.identity_servers
      [] op = "endpoint_client_abort_handshake" -> self.endpoint_clients
      [] op = "endpoint_server_handle_channel_request_received" -> self.endpoint_servers

\* C13: an abort or a submission whose handle is not a key of the map of its
\* kind of handshake (never allocated, allocated to another kind, or retired)
\* returns an error and leaves the whole Context as it was: the four maps,
\* the listeners and the next handle.
C13_UnknownHandleRefused ==
    /\ \A handle \in 0..MaxHandles : \A args \in ContextAborts(handle) :
        handle \notin DOMAIN ContextMapOf(ctx, args.op) =>
            LET call == ContextCall(ctx, args)
            IN  ~call.ret.ok /\ call.self = ctx
    /\ \A handle \in 0..MaxHandles :
       \A args \in ContextSubmissions(handle) \cup
                   {[op |-> "endpoint_server_handle_channel_request_received", handle |-> handle,
                     channel_supported |-> TRUE]} :
        handle \notin DOMAIN ContextMapOf(ctx, args.op) =>
            LET call == ContextCall(ctx, args)
            IN  ~call.ret.ok /\ call.self = ctx

\* one handshake has been retired and another is registered; the aborts and
\* submissions for the retired handle, and those of the other kinds for the
\* registered one, are refused
C13_Witness ==
    \E retired \in ctx_hist.retired, registered \in DOMAIN ctx.identity_servers :
        /\ retired \notin ContextHandles(ctx)
        /\ \A args \in ContextAborts(retired) \cup ContextSubmissions(retired) :
            ~ContextCall(ctx, args).ret.ok
        /\ \A args \in ContextAborts(registered) : ~ContextCall(ctx, args).ret.ok

\* C14: identity_server_start succeeds exactly when bootstrap is complete and
\* no identity listener exists, and then the Context has one; while a
\* listener exists (a second start without a stop between) the call fails
\* and the Context, the existing listener included, is as it was.
C14_OneIdentityListener ==
    LET call == ContextCall(ctx, [op |-> "identity_server_start"])
    IN  /\ call.ret.ok <=> (ctx.bootstrap_complete /\ ~ctx.identity_listener)
        /\ call.ret.ok => call.self = [ctx EXCEPT !.identity_listener = TRUE]
        /\ ~call.ret.ok => call.self = ctx

\* identity_server_start has made a listener, an update() has accepted a
\* connection on it, and a second identity_server_start is refused
C14_Witness ==
    /\ ctx.identity_listener
    /\ DOMAIN ctx.identity_servers /= {}
    /\ ~ContextCall(ctx, [op |-> "identity_server_start"]).ret.ok

\* the events of a list that carry this handle
EventsForHandle(events, handle) ==
    {i \in 1..Len(events) : "handle" \in DOMAIN events[i] /\ events[i].handle = handle}

\* C15: a successful identity_server_stop leaves no identity listener and an
\* empty identity-server map, and every other map, the endpoint listeners
\* and the next handle as they were; the handles of the machines it
\* discarded are unknown handles from then on (their submissions fail and
\* change nothing), they are never registered again, and an update() after
\* the stop neither ticks them nor returns an event for them.
C15_StopDiscardsIdentityServers ==
    /\ ctx.bootstrap_complete =>
        LET call == ContextCall(ctx, [op |-> "identity_server_stop"])
        IN  /\ call.ret.ok
            /\ ~call.self.identity_listener
            /\ DOMAIN call.self.identity_servers = {}
            /\ call.self = [ctx EXCEPT !.identity_listener = FALSE, !.identity_servers = call.self.identity_servers]
            /\ \A handle \in DOMAIN ctx.identity_servers : \A args \in ContextSubmissions(handle) :
                LET later == ContextCall(call.self, args)
                IN  ~later.ret.ok /\ later.self = call.self
    /\ \A handle \in ctx_hist.stopped :
        /\ handle \notin ContextHandles(ctx)
        /\ handle \in ctx_hist.outlived =>
            /\ handle \notin ctx_hist.last.ticked
            /\ EventsForHandle(ctx_hist.last.events, handle) = {}

\* identity_server_stop has discarded a handshake in progress, and an
\* update() that ticked another machine has run since
C15_Witness ==
    \E handle \in ctx_hist.stopped \cap ctx_hist.outlived :
        /\ handle \notin ctx_hist.retired
        /\ ctx_hist.last.ticked /= {}
        /\ ~ctx.identity_listener

\* C17, as stated: a submission made for a registered handshake before the
\* event it answers has been returned fails and is fatal to that handshake:
\* the handshake ends with a failed outcome, so no update() after the failed
\* call reports it completed.
C17_MisuseIsFatal ==
    \A handle \in ctx_hist.misused :
        \A i \in EventsForHandle(ctx_hist.last.events, handle) :
            ctx_hist.last.events[i].type \notin
                {"IdentityClientHandshakeCompleted", "IdentityServerHandshakeCompleted"}

\* C18: a client handshake aborted by the application (while it waits for a
\* reply of its peer, or in any other state) is not registered in the
\* Context from the abort on, and an update() after the abort neither ticks
\* its machine nor returns an event carrying its handle, whatever the peers
\* have written meanwhile.
C18_AbortedHandleSilent ==
    \A handle \in ctx_hist.aborted :
        /\ handle \notin ContextHandles(ctx)
        /\ handle \in ctx_hist.outlived =>
            /\ handle \notin ctx_hist.last.ticked
            /\ EventsForHandle(ctx_hist.last.events, handle) = {}

\* a client handshake was aborted while it waited for its peer's reply, and
\* an update() that ticked another machine has run since
C18_Witness ==
    \E handle \in ctx_hist.awaited \cap ctx_hist.outlived :
        /\ handle \notin ContextHandles(ctx)
        /\ ctx_hist.last.ticked /= {}

\* the handles that are keys of more than one of the four maps
ContextSharedHandles(self) ==
    {h \in ContextHandles(self) :
        Cardinality({m \in {"identity_clients", "identity_servers", "endpoint_clients", "endpoint_servers"} :
                        h \in DOMAIN self[m]}) > 1}

\* C19: in every step of a Context the next handle does not decrease, the
\* handles newly registered are values from the old next handle up to the
\* new one (so larger than every handle given before, in allocation order),
\* every registered handle is below the next handle, no handle that was
\* retired, aborted or discarded is registered again, and no handle is a key
\* of two of the four maps.
C19_HandlesNeverReused ==
    [][ /\ ctx'.next_handshake_handle >= ctx.next_handshake_handle
        /\ ContextHandles(ctx') \ ContextHandles(ctx)
                \subseteq ctx.next_handshake_handle .. (ctx'.next_handshake_handle - 1)
        /\ \A h \in ContextHandles(ctx') : h < ctx'.next_handshake_handle
        /\ ContextHandles(ctx') \cap (ctx_hist'.retired \cup ctx_hist'.aborted \cup ctx_hist'.stopped) = {}
        /\ ContextSharedHandles(ctx') = {} ]_vars

\* every handle of the bound has been given out, to machines of two kinds,
\* one handshake is retired and another still registered
C19_Witness ==
    /\ ctx.next_handshake_handle = MaxHandles
    /\ ctx_hist.retired /= {}
    /\ DOMAIN ctx.identity_servers /= {}
    /\ \E retired \in ctx_hist.retired, registered \in ContextHandles(ctx) : retired < registered

\* the place of an event's group in the list update() returns: transport,
\* identity clients, identity servers, endpoint clients, endpoint servers
EventGroup(event) ==
    CASE event.type \in {"TorBootstrapCompleted", "TorLogReceived"} -> 0
      [] event.type \in {"IdentityClientChallengeReceived", "IdentityClientHandshakeCompleted",
                         "IdentityClientHandshakeFailed"} -> 1
      [] event.type \in {"IdentityServerEndpointRequestReceived", "IdentityServerChallengeResponseReceived",
                         "IdentityServerHandshakeCompleted", "IdentityServerHandshakeFailed"} -> 2
      [] event.type = "EndpointClientHandshakeCompleted" -> 3
      [] event.type \in {"EndpointServerChannelRequestReceived", "EndpointServerHandshakeCompleted"} -> 4

\* C20: in the list of events of one update() the groups come in the order
\* transport, identity clients, identity servers, endpoint clients, endpoint
\* servers, and of two events of one group that carry a handle the one with
\* the smaller handle comes first.
C20_EventsInGroupAndHandleOrder ==
    \A i \in 1..Len(ctx_hist.last.events), j \in 1..Len(ctx_hist.last.events) :
        i < j =>
            LET first == ctx_hist.last.events[i]
                second == ctx_hist.last.events[j]
            IN  /\ EventGroup(first) <= EventGroup(second)
                /\ ( /\ EventGroup(first) = EventGroup(second)
                     /\ "handle" \in DOMAIN first
                     /\ "handle" \in DOMAIN second ) => first.handle <= second.handle

\* one update() has returned events of two machines of one group
C20_Witness ==
    \E i \in 1..Len(ctx_hist.last.events), j \in 1..Len(ctx_hist.last.events) :
        /\ i < j
        /\ EventGroup(ctx_hist.last.events[i]) = EventGroup(ctx_hist.last.events[j])
        /\ "handle" \in DOMAIN ctx_hist.last.events[i]
        /\ "handle" \in DOMAIN ctx_hist.last.events[j]
        /\ ctx_hist.last.events[i].handle < ctx_hist.last.events[j].handle

\* the second of two update() calls that meet no message of the peer did
\* nothing: same machine, no event, nothing written
UpdateRepeated(first, second) ==
    first.ret.ok =>
        /\ second.self = first.self
        /\ second.ret = OkNone
        /\ second.calls = <<>>
        /\ second.replies = <<>>

\* C21: for every machine registered in the Context (identity client,
\* identity server, endpoint client, endpoint server), two update() calls in
\* a row during which no message of the peer arrives and the application
\* submits nothing leave the machine, after the second call, exactly as it
\* was after the first: the first call does whatever work is pending, the
\* second does nothing.
C21_UpdateIdempotentWithoutInput ==
    /\ \A h \in DOMAIN ctx.identity_clients :
        \A first \in {IdentityClientUpdate(ctx.identity_clients[h], TRUE, None, Repeat(0, CLIENT_COOKIE_SIZE))} :
            UpdateRepeated(first, IdentityClientUpdate(first.self, TRUE, None, Repeat(0, CLIENT_COOKIE_SIZE)))
    /\ \A h \in DOMAIN ctx.identity_servers :
        \A first \in {IdentityServerUpdate(ctx.identity_servers[h], TRUE, <<>>, CtxEndpointKey)} :
            UpdateRepeated(first, IdentityServerUpdate(first.self, TRUE, <<>>, CtxEndpointKey))
    /\ \A h \in DOMAIN ctx.endpoint_clients :
        \A first \in {EndpointClientUpdate(ctx.endpoint_clients[h], TRUE, None, Repeat(0, CLIENT_COOKIE_SIZE))} :
            UpdateRepeated(first, EndpointClientUpdate(first.self, TRUE, None, Repeat(0, CLIENT_COOKIE_SIZE)))
    /\ \A h \in DOMAIN ctx.endpoint_servers :
        \A first \in {EndpointServerUpdate(ctx.endpoint_servers[h], TRUE, <<>>)} :
            UpdateRepeated(first, EndpointServerUpdate(first.self, TRUE, <<>>))

\* an identity client that has not yet sent begin_handshake and an identity
\* server holding the application's challenge: the first update() of each
\* does its work, the second changes nothing
C21_Witness ==
    \E c \in DOMAIN ctx.identity_clients, s \in DOMAIN ctx.identity_servers :
        /\ ctx.identity_clients[c].state = "BeginHandshake"
        /\ ctx.identity_servers[s].state = "ChallengeReady"
        /\ LET first == IdentityClientUpdate(ctx.identity_clients[c], TRUE, None, Repeat(0, CLIENT_COOKIE_SIZE))
           IN  /\ first.self.state = "WaitingForChallenge"
               /\ IdentityClientUpdate(first.self, TRUE, None, Repeat(0, CLIENT_COOKIE_SIZE)).self = first.self
        /\ LET first == IdentityServerUpdate(ctx.identity_servers[s], TRUE, <<>>, CtxEndpointKey)
           IN  /\ first.self.state = "WaitingForSendResponse"
               /\ first.replies /= <<>>
               /\ IdentityServerUpdate(first.self, TRUE, <<>>, CtxEndpointKey).self = first.self


\* C27, as stated: a successful endpoint_client_begin_handshake returns a
\* handle, and that handle is the key under which the new endpoint client is
\* registered (the key an abort of it takes).
C27_EndpointClientBeginReturnsHandle ==
    \E call \in {ContextCall(ctx, [op |-> "endpoint_client_begin_handshake",
                                   endpoint_server_id |-> CtxRemoteId, channel |-> <<99>>])} :
        call.ret.ok =>
            /\ call.ret.v /= None
            /\ \E handle \in DOMAIN call.self.endpoint_clients \ DOMAIN ctx.endpoint_clients :
                /\ call.ret.v = handle
                /\ ContextCall(call.self, [op |-> "endpoint_client_abort_handshake", handle |-> call.ret.v]).ret.ok


\* the identity server as each request of a batch finds it: after none, one,
\* two, .. of the requests waiting on the wire were executed
IdentityServersInBatch ==
    {IdentityServerRpcRequests(id_server, SubSeq(id_net.c2s, 1, k)).self : k \in 0..Len(id_net.c2s)}

\* an endpoint server in each of its four states
EndpointServersInEachState ==
    LET new == EndpointServerNew(IdClientId, IdServerId, Repeat(0, SERVER_COOKIE_SIZE))
        begun == EndpointServerAwaitingSendResponse
        handled == EndpointServerExecFunction(begun, "send_response", 0,
                        ForgedEndpointResponseArgs(begun, IdClientId, IdClientKey, Repeat(0, CLIENT_COOKIE_SIZE)),
                        Some(1)).self
    IN  {new, begun, handled, EndpointServerUpdate(handled, TRUE, <<>>).self}

\* calls of a function or a version that no server has
UnknownRequests(args) == {Request("close", 0, Some(7), args), Request("begin_handshake", 1, Some(7), args)}

\* the call is one the claim lists: of an unknown function or version,
\* begin_handshake outside WaitingForBeginHandshake or after one was taken
\* in, send_response outside WaitingForSendResponse or after one was taken in
IdentityCallOutOfTurn(self, request) ==
    \/ request.function \notin {"begin_handshake", "send_response"}
    \/ request.version /= 0
    \/ /\ request.function = "begin_handshake"
       /\ self.state /= "WaitingForBeginHandshake" \/ IsSome(self.begin_handshake_request_cookie)
    \/ /\ request.function = "send_response"
       /\ self.state /= "WaitingForSendResponse" \/ IsSome(self.client_auth_key)

EndpointCallOutOfTurn(self, request) ==
    \/ request.function \notin {"begin_handshake", "send_response"}
    \/ request.version /= 0
    \/ request.function = "begin_handshake" /\ self.state /= "WaitingForBeginHandshake"
    \/ request.function = "send_response" /\ self.state /= "WaitingForSendResponse"

\* C31: an RPC call that reaches an identity server or an endpoint server out
\* of turn (begin_handshake outside WaitingForBeginHandshake, send_response
\* outside WaitingForSendResponse, a call repeated after it was taken in, an
\* unknown function or version) leaves the state and every stored field of
\* the server as they were.
C31_OutOfTurnCallChangesNothing ==
    /\ \A self \in IdentityServersInBatch :
       \A request \in RogueIdentityRequests(self, 7) \cup UnknownRequests(ForgedSendResponseArgs(self, IdClientKey, <<0>>, <<0>>, 1)) :
        IdentityCallOutOfTurn(self, request) =>
            IdentityServerExecFunction(self, request.function, request.version, request.args, request.cookie).self = self
    /\ \A self \in EndpointServersInEachState :
       \A request \in RogueEndpointRequests(self, 7) \cup UnknownRequests(ForgedEndpointResponseArgs(self, IdClientId, IdClientKey, <<0>>)) :
        EndpointCallOutOfTurn(self, request) =>
            EndpointServerExecFunction(self, request.function, request.version, request.args, request.cookie).self = self

\* a peer has written a second begin_handshake behind its first: the server
\* will read both in one batch, the second after the first was taken in
C31_Witness ==
    /\ Len(id_net.c2s) >= 2
    /\ id_net.c2s[1].function = "begin_handshake" /\ id_net.c2s[2].function = "begin_handshake"
    /\ id_server.state = "WaitingForBeginHandshake"
    /\ \E self \in IdentityServersInBatch : IsSome(self.requested_endpoint)


\* C32, as stated: once the identity server has refused begin_handshake for
\* its version or an argument, the handshake is over: update() has returned
\* an error, or the server is in its terminal state, or at the latest the
\* next update() returns an error, so that the machine does not stay
\* registered in a state that is not terminal.
C32_RefusedBeginHandshakeIsFatal ==
    (\E i \in IdRepliesTo("begin_handshake") :
        /\ id_hist.replies[i].resp.kind = "Error"
        /\ id_hist.replies[i].resp.error_code \in {BadVersion, InvalidArg}) =>
            \/ IsSome(id_hist.server_failed)
            \/ id_server.state = "HandshakeComplete"
            \/ \A endpoint_private_key \in Ed25519PrivateKeys :
                ~IdentityServerUpdate(id_server, TRUE, <<>>, endpoint_private_key).ret.ok


\* success replies to begin_handshake that are malformed: a document with no
\* server_cookie, with a server_cookie that is a string, with a server_cookie
\* of one byte
MalformedServerCookieReplies(cookie) ==
    {ResponseSuccess(cookie, ResultDocument(server_cookie, BsonMissing)) :
        server_cookie \in {BsonMissing, BsonString(<<97>>), BsonBinary(<<0>>)}}

\* success replies to send_response that are not an empty document: a string,
\* null, a document with a field
MalformedVerificationReplies(cookie) ==
    {ResponseSuccess(cookie, result) :
        result \in {BsonString(<<97>>), NoResult,
                    ResultDocument(BsonBinary(Repeat(0, SERVER_COOKIE_SIZE)), BsonMissing)}}

\* C33, as stated: an endpoint client that reads a malformed success reply
\* (to begin_handshake: a document without a binary server_cookie or with one
\* that is not 32 bytes; to send_response: anything but an empty document)
\* fails with an error; it does not stay waiting.
C33_MalformedReplyFailsClient ==
    /\ ep_client.state = "WaitingForServerCookie" =>
        \A reply \in MalformedServerCookieReplies(Unwrap(ep_client.begin_handshake_request_cookie)) :
        \A client_cookie \in IdCookies :
            ~EndpointClientUpdate(ep_client, TRUE, Some(reply), client_cookie).ret.ok
    /\ ep_client.state = "WaitingForProofVerification" =>
        \A reply \in MalformedVerificationReplies(Unwrap(ep_client.send_response_request_cookie)) :
        \A client_cookie \in IdCookies :
            ~EndpointClientUpdate(ep_client, TRUE, Some(reply), client_cookie).ret.ok


\* what a signed proof may have been built from
SignedProofInputs ==
    [domain : {GoslingIdentity, GoslingEndpoint},
     request : {<<101>>, <<102>>},
     client_service_id : {IdClientId, V3OnionServiceIdFromPrivateKey(IdRogueKey)},
     server_service_id : {IdServerId, IdClientId},
     client_cookie : IdCookies,
     server_cookie : IdCookies]

\* C34: handle_send_response sets client_proof_signature_valid exactly when
\* the signature is by the key of the supplied client identity over the
\* identity-domain proof of the stored endpoint, that identity, this server's
\* identity, the received client cookie and this handshake's server cookie;
\* a signature over a proof with another server cookie, server identity,
\* endpoint, client cookie or domain leaves it false. A handshake that ends
\* with the flag false is rejected: HandshakeRejected, the Failure reply, no
\* endpoint key.
C34_ProofBoundToHandshake ==
    /\ (id_server.state = "WaitingForSendResponse" /\ IsNone(id_server.client_auth_key)) =>
        \A p \in SignedProofInputs : \A signer \in {IdClientKey, IdRogueKey} : \A client_cookie \in IdCookies :
            LET call == IdentityServerHandleSendResponse(id_server, client_cookie, IdClientId,
                            Ed25519Sign(signer, ProofOf(p).v),
                            X25519PublicFromPrivate(1), 1,
                            X25519Sign(1, V3OnionServiceIdToString(IdClientId)).sig,
                            <<2>>)
            IN  call.self.client_proof_signature_valid =
                    /\ signer = IdClientKey
                    /\ p.domain = GoslingIdentity
                    /\ Some(p.request) = id_server.requested_endpoint
                    /\ p.client_service_id = IdClientId
                    /\ p.server_service_id = id_server.server_identity
                    /\ p.client_cookie = client_cookie
                    /\ Some(p.server_cookie) = id_server.server_cookie
    /\ (id_server.state = "HandshakeComplete" /\ ~id_server.client_proof_signature_valid) =>
        /\ EventsOf(id_hist.server_events, "HandshakeRejected") /= {}
        /\ EventsOf(id_hist.server_events, "HandshakeCompleted") = {}
        /\ IsNone(id_server.endpoint_private_key)
        /\ \A i \in IdRepliesTo("send_response") :
            id_hist.replies[i].deferred =>
                /\ id_hist.replies[i].resp.kind = "Error"
                /\ id_hist.replies[i].resp.error_code = Failure

\* a handshake rejected for its proof signature alone
C34_Witness ==
    /\ id_server.state = "HandshakeComplete"
    /\ IdFlags = <<TRUE, TRUE, FALSE, TRUE, TRUE>>
    /\ EventsOf(id_hist.server_events, "HandshakeRejected") /= {}


\* the Context as it is and as it is after a second endpoint server has been
\* started
ContextsWithListeners ==
    {ctx, ContextCall(ctx, [op |-> "endpoint_server_start", endpoint_private_key |-> IdClientKey,
                            endpoint_name |-> <<102>>, client_identity |-> CtxRemoteId]).self}

\* C35: endpoint_server_stop(id) on a bootstrapped Context with a listener
\* under id succeeds and removes that listener alone; in every other case it
\* fails and changes nothing.  The other endpoint listeners, the identity
\* listener, the four maps of handshakes in progress (the endpoint servers
\* accepted from the removed listener among them) and the handle counter are
\* as before.
C35_StopRemovesOneListener ==
    \A self \in ContextsWithListeners :
    \A endpoint_identity \in {V3OnionServiceIdFromPrivateKey(k) : k \in Ed25519PrivateKeys} :
        LET call == ContextCall(self, [op |-> "endpoint_server_stop", endpoint_identity |-> endpoint_identity])
        IN  IF self.bootstrap_complete /\ endpoint_identity \in DOMAIN self.endpoint_listeners
            THEN /\ call.ret.ok
                 /\ DOMAIN call.self.endpoint_listeners = DOMAIN self.endpoint_listeners \ {endpoint_identity}
                 /\ \A other \in DOMAIN call.self.endpoint_listeners :
                        call.self.endpoint_listeners[other] = self.endpoint_listeners[other]
                 /\ call.self = [self EXCEPT !.endpoint_listeners = call.self.endpoint_listeners]
            ELSE /\ ~call.ret.ok
                 /\ call.self = self

\* the endpoint listener has been stopped after a handshake was accepted from
\* it, and the handshake is still registered
C35_Witness ==
    /\ ctx.bootstrap_complete
    /\ ctx.endpoint_listeners = EmptyMap
    /\ ctx.endpoint_servers /= EmptyMap


(***************************************************************************)
(* SpecCrateEndpoint: one endpoint server of                               *)
(* crates/gosling/src/endpoint_server.rs, a peer that writes any requests  *)
(* in any order, and an application that calls update() and                *)
(* handle_channel_request_received() whenever it likes.  The server is in  *)
(* ep_server, the requests written and not yet read in ep_net.c2s.         *)
(***************************************************************************)
\* number of times the application calls handle_channel_request_received
MaxSubmissions == 2

\* the send_response arguments of a peer that holds ed25519 key signer and
\* has read the server cookie, if one was sent
CrateSendResponseArgs(self, signer, client_cookie) ==
    LET server_cookie == IF IsSome(self.server_cookie) THEN Unwrap(self.server_cookie)
                         ELSE Repeat(0, SERVER_COOKIE_SIZE)
        proof == build_client_proof(GoslingEndpoint, <<99>>, IdClientId, self.server_identity,
                                    Repeat(0, CLIENT_COOKIE_SIZE), server_cookie)
    IN  [client_cookie |-> BsonBinary(client_cookie),
         client_identity_proof_signature |-> BsonSignature(Ed25519Sign(signer, proof.v))]

\* the requests the peer may write next
CratePeerRequests(self, cookie) ==
    LET zero == Repeat(0, CLIENT_COOKIE_SIZE)
        begin(version, client_identity, channel) ==
            [version |-> BsonString(version),
             client_identity |-> BsonString(client_identity),
             channel |-> BsonString(channel)]
    IN  { Request("begin_handshake", 0, Some(cookie), begin(GOSLING_VERSION, IdClientId, <<99>>)),
          Request("begin_handshake", 0, Some(cookie), begin(GOSLING_VERSION, CtxRemoteId, <<99>>)),
          Request("begin_handshake", 0, Some(cookie), begin(<<48>>, IdClientId, <<99>>)),
          Request("begin_handshake", 0, Some(cookie), begin(GOSLING_VERSION, <<97>>, <<99>>)),
          Request("begin_handshake", 0, Some(cookie), begin(GOSLING_VERSION, IdClientId, <<195, 169>>)),
          Request("begin_handshake", 0, None, begin(GOSLING_VERSION, IdClientId, <<99>>)),
          Request("send_response", 0, Some(cookie), CrateSendResponseArgs(self, IdClientKey, zero)),
          Request("send_response", 0, Some(cookie), CrateSendResponseArgs(self, IdRogueKey, zero)),
          Request("send_response", 0, Some(cookie), CrateSendResponseArgs(self, IdClientKey, <<0>>)) }

\* what is remembered beside the server: the requests written, the events
\* and the error update() has returned, the replies sent, whether a request
\* has run into unreachable!(), and for each call of
\* handle_channel_request_received the server before and after it, the
\* events returned by then and the result
CrInit ==
    /\ ep_server = CrateEndpointServerNew(IdClientId, IdServerId)
    /\ ep_client = None
    /\ ep_net = [c2s |-> <<>>, s2c |-> <<>>]
    /\ ep_hist = [forged |-> 0, server_events |-> <<>>, server_failed |-> None, replies |-> <<>>,
                  panicked |-> FALSE, submissions |-> <<>>]
    /\ ProofIdle /\ IdIdle /\ CtxIdle

\* the peer writes a request
CrPeerSend ==
    /\ ~ep_hist.panicked
    /\ ep_hist.forged < MaxForged
    /\ \E request \in CratePeerRequests(ep_server, ep_hist.forged) :
        ep_net' = [ep_net EXCEPT !.c2s = Append(@, request)]
    /\ ep_hist' = [ep_hist EXCEPT !.forged = @ + 1]
    /\ UNCHANGED <<ep_client, ep_server, proof_vars, id_vars, ctx_vars>>

\* the application ticks the server; a panic ends the program
CrServerUpdate ==
    /\ ~ep_hist.panicked
    /\ IsNone(ep_hist.server_failed)
    /\ \E step \in {CrateEndpointServerUpdate(ep_server, ep_net.c2s)} :
        /\ ep_server' = step.self
        /\ ep_net' = [ep_net EXCEPT !.c2s = <<>>]
        /\ ep_hist' = [ep_hist EXCEPT
                          !.server_events = @ \o (IF step.ret.ok THEN Emitted(step.ret) ELSE <<>>),
                          !.server_failed = IF step.ret.ok THEN None ELSE Some(step.ret.e),
                          !.panicked = ~step.ret.ok /\ step.ret.e = "panic",
                          !.replies = @ \o step.replies]
    /\ UNCHANGED <<ep_client, proof_vars, id_vars, ctx_vars>>

\* the application answers, or believes it answers, a channel request
CrServerHandleChannelRequestReceived ==
    /\ ~ep_hist.panicked
    /\ Len(ep_hist.submissions) < MaxSubmissions
    /\ \E client_requested_channel_valid \in BOOLEAN, server_cookie \in IdCookies :
       \E call \in {CrateEndpointServerHandleChannelRequestReceived(ep_server, client_requested_channel_valid,
                                                                    server_cookie)} :
        /\ ep_server' = call.self
        /\ ep_hist' = [ep_hist EXCEPT !.submissions = Append(@,
                            [before |-> ep_server, after |-> call.self, events |-> ep_hist.server_events, ret |-> call.ret,
                             client_requested_channel_valid |-> client_requested_channel_valid,
                             server_cookie |-> server_cookie])]
    /\ UNCHANGED <<ep_client, ep_net, proof_vars, id_vars, ctx_vars>>

CrNext ==
    \/ CrPeerSend
    \/ CrServerUpdate
    \/ CrServerHandleChannelRequestReceived

SpecCrateEndpoint == CrInit /\ [][CrNext]_vars


\* the calls of handle_channel_request_received that were made after update()
\* had returned ChannelRequestReceived and before any call had succeeded
CrateSubmissionsInTurn ==
    {i \in 1..Len(ep_hist.submissions) :
        /\ EventsOf(ep_hist.submissions[i].events, "ChannelRequestReceived") /= {}
        /\ \A j \in 1..(i - 1) : ~ep_hist.submissions[j].ret.ok}

\* C36: a call of handle_channel_request_received succeeds exactly when
\* update() has returned ChannelRequestReceived and no earlier call has
\* succeeded; it then stores the server cookie and the two flags and moves to
\* ChannelRequestValidated.  Every other call returns IncorrectUsage and
\* leaves the server, its state, server cookie and flags among the rest, as
\* it was.  The same holds of a call made in the present state.
C36_ChannelRequestAnsweredOnce ==
    /\ \A i \in 1..Len(ep_hist.submissions) :
        LET s == ep_hist.submissions[i] IN
        IF i \in CrateSubmissionsInTurn
        THEN /\ s.ret.ok
             /\ s.before.state = "ValidatingChannelRequest"
             /\ s.after = [s.before EXCEPT
                              !.state = "ChannelRequestValidated",
                              !.server_cookie = Some(s.server_cookie),
                              !.client_allowed = (s.before.client_identity = Some(s.before.allowed_client_identity)),
                              !.client_requested_channel_valid = s.client_requested_channel_valid]
        ELSE /\ ~s.ret.ok
             /\ s.ret.e = "IncorrectUsage"
             /\ s.after = s.before
    /\ Cardinality({i \in 1..Len(ep_hist.submissions) : ep_hist.submissions[i].ret.ok}) <= 1
    /\ \A client_requested_channel_valid \in BOOLEAN, server_cookie \in IdCookies :
        LET call == CrateEndpointServerHandleChannelRequestReceived(ep_server, client_requested_channel_valid,
                                                                    server_cookie)
        IN  /\ call.ret.ok =
                /\ EventsOf(ep_hist.server_events, "ChannelRequestReceived") /= {}
                /\ \A j \in 1..Len(ep_hist.submissions) : ~ep_hist.submissions[j].ret.ok
            /\ ~call.ret.ok => call.self = ep_server

\* the application has answered the channel request and then answered again
C36_Witness ==
    /\ Len(ep_hist.submissions) = 2
    /\ ep_hist.submissions[1].ret.ok
    /\ ~ep_hist.submissions[2].ret.ok
    /\ ep_hist.submissions[2].before.state = "WaitingForSendResponse"

\* the servers update() passes through while it handles the requests written
CrateServersInBatch ==
    {CrateEndpointServerRpcRequests(ep_server, SubSeq(ep_net.c2s, 1, k)).self : k \in 0..Len(ep_net.c2s)}

\* C39: a server in WaitingForSendResponse has its server cookie set (and the
\* request cookie, client identity and channel), also between the requests
\* of one update(); no request the peer can write makes handle_send_response
\* reach unreachable!(), and no update() has panicked.
C39_ServerCookieSetWhenAwaitingResponse ==
    /\ ~ep_hist.panicked
    /\ \A self \in CrateServersInBatch :
        /\ self.state = "WaitingForSendResponse" =>
            /\ IsSome(self.server_cookie)
            /\ IsSome(self.begin_handshake_request_cookie)
            /\ IsSome(self.client_identity)
            /\ IsSome(self.requested_channel)
        /\ \A request \in CratePeerRequests(self, 7) :
            "panic" \notin DOMAIN CrateEndpointServerExecFunction(self, request.function, request.version,
                                                               request.args, request.cookie).res

\* handle_send_response has read the server cookie and accepted the proof
C39_Witness ==
    /\ ep_server.state = "HandshakeComplete"
    /\ ep_server.handshake_succeeded = Some(TRUE)
    /\ IsSome(ep_server.server_cookie)
    /\ EventsOf(ep_hist.server_events, "HandshakeCompleted") /= {}


\* C37, as stated: once send_response has succeeded on an identity client,
\* every further send_response fails, and the send_response call the client
\* writes carries the response submitted first.
C37_OneChallengeResponsePerHandshake ==
    (~id_hist.rogue /\ id_hist.response_submitted /\ IsSome(id_client.endpoint_challenge_response)) =>
        \A challenge_response \in {<<2>>, <<3>>} :
            LET again == IdentityClientSendResponse(id_client, challenge_response)
                sent == IdentityClientUpdate(again.self, TRUE, None, Repeat(0, CLIENT_COOKIE_SIZE)).calls
            IN  /\ ~again.ret.ok
                /\ \A i \in 1..Len(sent) :
                    sent[i].args.challenge_response = BsonDocument(Unwrap(id_client.endpoint_challenge_response))


\* C38: an identity server in ChallengeReady, also between the requests of
\* one update(), has the begin_handshake request cookie, client identity,
\* requested endpoint, server cookie and endpoint challenge set and the
\* send_response request cookie, client auth key and challenge response
\* unset; next_result then takes the arm that answers, not unreachable!(),
\* and no update() has panicked.
C38_ChallengeReadyFieldsSet ==
    /\ id_hist.server_failed /= Some("panic")
    /\ \A self \in IdentityServersInBatch :
        self.state = "ChallengeReady" =>
            /\ IsSome(self.begin_handshake_request_cookie)
            /\ IsSome(self.client_identity)
            /\ IsSome(self.requested_endpoint)
            /\ IsSome(self.server_cookie)
            /\ IsSome(self.endpoint_challenge)
            /\ IsNone(self.send_response_request_cookie)
            /\ IsNone(self.client_auth_key)
            /\ IsNone(self.challenge_response)
            /\ \A endpoint_private_key \in Ed25519PrivateKeys :
                LET result == IdentityServerNextResult(self, endpoint_private_key)
                IN  ~result.panic /\ IsSome(result.res) /\ result.self.state = "WaitingForSendResponse"

\* a peer has written send_response while the server is in ChallengeReady,
\* and the update() that reads it will ask next_result in that state
C38_Witness ==
    /\ id_server.state = "ChallengeReady"
    /\ \E i \in 1..Len(id_net.c2s) : id_net.c2s[i].function = "send_response"
    /\ \A self \in IdentityServersInBatch : self.state = "ChallengeReady"

====
